---------------------------- MODULE Spec2Model ----------------------------
(***************************************************************************)
(* A model of the hydroshift changepoint engine:                           *)
(*   - the batch p-value lookup            (hydroshift/stats/tests.py)     *)
(*   - the changepoint record, evidence level and change windows           *)
(*                                         (hydroshift/_pages/changepoint) *)
(*   - the changepoint page run            (hydroshift/_pages/changepoint) *)
(*   - the single-pass detector            (tst/stats/tests.py)            *)
(*   - the streaming scan of the R server  (from the specification)        *)
(* and of its flood-frequency routines:                                    *)
(*   - the skew weighting, L-moments, LP3 parameters and quantiles         *)
(*                                         (hydroshift/utils/ffa.py)       *)
(*   - the Mood and Lepage statistics      (tst/stats/tests.py)            *)
(* and of the routines around them:                                        *)
(*   - get_max_pvalue                      (hydroshift/_pages/changepoint) *)
(*   - regional_skew, check_missing_dates  (hydroshift/utils/data_retrieval) *)
(*   - group_consecutive_years             (hydroshift/utils/common.py)    *)
(*   - the caller's series as a heap object (hydroshift/utils/ffa.py)      *)
(*   - start_server and its callers        (hydroshift/rserver)            *)
(*   - the session's navigation            (hydroshift/streamlit_app.py)   *)
(* In the changepoint engine real numbers are scaled integers and NaN is a *)
(* distinguished value that the comparisons treat as IEEE-754 / numpy do;  *)
(* the flood-frequency routines are computed in exact rational arithmetic. *)
(***************************************************************************)
EXTENDS Integers, Sequences, FiniteSets, TLC

(* ------------------------------ bounds --------------------------------- *)
\* largest statistic / threshold value drawn
MaxStat == 4
\* longest batch statistic array drawn
MaxLen == 2
\* number of peaks (dates) in the series handed to get_changepoints
NumDates == 3
\* most changepoint reports (test, position) the five streaming scans return together
MaxReports == 3
\* longest series handed to detect_change_point
MaxN == 4
\* largest burn-in of the detector
MaxBurnIn == 2
\* largest burn-in the page's sidebar offers (100 in the program)
PageMaxBurnIn == 2
\* longest peak series get_ams returns
MaxPeaks == 3
\* longest series sent to the streaming scan
MaxStream == 4
\* largest value of the open segment's statistic and of the ARL0 threshold
MaxSegStat == 2

(* ------------------------- program constants --------------------------- *)
\* np.nan: a value outside the numeric range 0..MaxStat
NaN == -1
\* p_range, in units of 1/1000: 0.05, 0.01, 0.005, 0.001
p_range == <<50, 10, 5, 1>>
METRICS == <<"Cramer-von-Mises", "Kolmogorov-Smirnov", "Lepage", "Mann-Whitney", "Mood">>

\* days in the year of get_change_windows
DaysPerYear == 365
\* default max_dist of get_change_windows, in years
DefaultMaxDist == 10

VARIABLES
    \* cp_pvalue_batch: the collaborator's answers and the returned array;
    \* get_pvalues: the p-value matrix, column by column
    thresholds, Ds, p_vals, pv_done, pval_df, df_done,
    \* ChangePointAnalysis: data.index (day numbers), the five streaming scans'
    \* changePoints, cp_dict (insertion-ordered), and what evidence_level and
    \* get_change_windows returned
    index, stream_res, cp_dict, evidence, windows, cp_pc,
    \* ChangePointModel: the series, the burn_in attribute, the value of
    \* test_statistic on every split of the series, and what
    \* detect_change_point did
    ts, burn_in, statistic, det_result, det_pc,
    \* the changepoint page: st.session_state, session_state.changepoint (the
    \* ChangePointAnalysis object) and what the last run of the page did
    session, cpa, page_run,
    \* the streaming scan behind cpm_process_stream: the scanner's state and
    \* the response returned
    scan, stream_out,
    \* LP3Analysis, skew weighting: the object's station skew, map skew and
    \* number of peaks, and what mse_station_skew and weighted_skew returned
    lp3, skew_res,
    \* l_moments and LP3Analysis.parameters: the log10 peaks, the estimation
    \* options, and what was returned
    log_peaks, lp3_opts, lmom_res,
    \* MoodCPM / LepageCPM.test_statistic: the two samples' sizes and scipy's
    \* statistics, and what was returned
    samples, mood_res,
    \* LP3Analysis.ffa_quantiles: the return periods and the fitted
    \* distribution, and what was returned
    ffa, ffa_res,
    \* Gage.regional_skew: the gage's site (raster lookup, basin elevation) and
    \* what regional_skew and has_regional_skew returned
    gage, rskew_res,
    \* the caller's peak series, as an array object shared with the analysis
    \* objects, and the operations applied to it
    heap, frame_ops,
    \* start_server: the R server process(es) behind the port, and every
    \* caller's position in start_server
    rserver, callers,
    \* ChangePointAnalysis.get_max_pvalue: self.pval_df and what was returned
    cpa_pval_df, maxp_res,
    \* the app's session: st.session_state, the page script shown and the
    \* log of what the runs did
    nav,
    \* group_consecutive_years: the list of years and what was returned
    years, year_groups,
    \* check_missing_dates: the frame's dates, the frequency asked for and what
    \* was returned
    peaks_df, missing_res

pvVars == <<thresholds, Ds, p_vals, pv_done, pval_df, df_done>>
cpVars == <<index, stream_res, cp_dict, evidence, windows, cp_pc>>
detVars == <<ts, burn_in, statistic, det_result, det_pc>>
pageVars == <<session, cpa, page_run>>
scanVars == <<scan, stream_out>>
skewVars == <<lp3, skew_res>>
lmomVars == <<log_peaks, lp3_opts, lmom_res>>
moodVars == <<samples, mood_res>>
quantVars == <<ffa, ffa_res>>
\* the variables of the changepoint engine and those of the numerical routines
engineVars == <<pvVars, cpVars, detVars, pageVars, scanVars>>
numVars == <<skewVars, lmomVars, moodVars, quantVars>>
\* the variables of the gage, server and session routines
rskewVars == <<gage, rskew_res>>
frameVars == <<heap, frame_ops>>
srvVars == <<rserver, callers>>
maxpVars == <<cpa_pval_df, maxp_res>>
navVars == <<nav>>
yearVars == <<years, year_groups>>
missVars == <<peaks_df, missing_res>>
appVars == <<rskewVars, frameVars, srvVars, maxpVars, navVars, yearVars, missVars>>
vars == <<thresholds, Ds, p_vals, pv_done, pval_df, df_done, index, stream_res, cp_dict, evidence, windows, cp_pc,
          ts, burn_in, statistic, det_result, det_pc, session, cpa, page_run, scan, stream_out,
          lp3, skew_res, log_peaks, lp3_opts, lmom_res, samples, mood_res, ffa, ffa_res,
          gage, rskew_res, heap, frame_ops, rserver, callers, cpa_pval_df, maxp_res, nav,
          years, year_groups, peaks_df, missing_res>>

(* ------------------------------ helpers -------------------------------- *)
SeqsUpTo(S, n) == UNION {[1..k -> S] : k \in 0..n}

Range(s) == {s[i] : i \in 1..Len(s)}

(* --------------------------- cp_pvalue_batch --------------------------- *)
\* numpy's ordering of floats in sorting and searching: NaN sorts last
NpLess(a, b) == a # NaN /\ (b = NaN \/ a < b)

\* IEEE comparison a > b: false as soon as one side is NaN
Exceeds(a, b) == a # NaN /\ b # NaN /\ a > b

\* np.searchsorted(a, key), side='left': binary search over 0-based [lo, hi)
RECURSIVE BinSearchLeft(_, _, _, _)
BinSearchLeft(a, key, lo, hi) ==
    IF lo >= hi THEN lo
    ELSE LET mid == lo + ((hi - lo) \div 2)
         IN  IF NpLess(a[mid + 1], key)
             THEN BinSearchLeft(a, key, mid + 1, hi)
             ELSE BinSearchLeft(a, key, lo, mid)

searchsorted(a, key) == BinSearchLeft(a, key, 0, Len(a))

\* a faulty variant: side='right' (a statistic equal to a threshold counts as above it)
RECURSIVE BinSearchRight(_, _, _, _)
BinSearchRight(a, key, lo, hi) ==
    IF lo >= hi THEN lo
    ELSE LET mid == lo + ((hi - lo) \div 2)
         IN  IF ~NpLess(key, a[mid + 1])
             THEN BinSearchRight(a, key, mid + 1, hi)
             ELSE BinSearchRight(a, key, lo, mid)

cp_pvalue_batch_right(thr, ds) ==
    LET lattice == <<NaN>> \o p_range
    IN  [i \in 1..Len(ds) |-> lattice[BinSearchRight(thr, ds[i], 0, Len(thr)) + 1]]

\* thr: get_batch_threshold's answers for p_range; ds: res["Ds"]
cp_pvalue_batch(thr, ds) ==
    LET lattice == <<NaN>> \o p_range
    IN  [i \in 1..Len(ds) |-> lattice[searchsorted(thr, ds[i]) + 1]]

\* the values of the variables of the machines a specification does not run
PvIdle ==
    /\ thresholds = <<>> /\ Ds = <<>> /\ p_vals = <<>> /\ pv_done = FALSE
    /\ pval_df = <<>> /\ df_done = FALSE

CpIdle ==
    /\ index = <<>> /\ stream_res = <<>> /\ cp_dict = <<>>
    /\ evidence = "unread" /\ windows = <<>> /\ cp_pc = "idle"

DetIdle ==
    /\ ts = <<>> /\ burn_in = 0 /\ statistic = <<>> /\ det_result = <<>> /\ det_pc = "idle"

PageIdle ==
    /\ session = <<>> /\ cpa = <<>> /\ page_run = <<>>

ScanIdle ==
    /\ scan = <<>> /\ stream_out = <<>>

SkewIdle ==
    /\ lp3 = <<>> /\ skew_res = <<>>

LmomIdle ==
    /\ log_peaks = <<>> /\ lp3_opts = <<>> /\ lmom_res = <<>>

MoodIdle ==
    /\ samples = <<>> /\ mood_res = <<>>

QuantIdle ==
    /\ ffa = <<>> /\ ffa_res = <<>>

EngineIdle == PvIdle /\ CpIdle /\ DetIdle /\ PageIdle /\ ScanIdle

NumIdle == SkewIdle /\ LmomIdle /\ MoodIdle /\ QuantIdle

RskewIdle ==
    /\ gage = <<>> /\ rskew_res = <<>>

FrameIdle ==
    /\ heap = <<>> /\ frame_ops = <<>>

SrvIdle ==
    /\ rserver = <<>> /\ callers = <<>>

MaxpIdle ==
    /\ cpa_pval_df = <<>> /\ maxp_res = <<>>

NavIdle ==
    /\ nav = <<>>

YearIdle ==
    /\ years = <<>> /\ year_groups = <<>>

MissIdle ==
    /\ peaks_df = <<>> /\ missing_res = <<>>

AppIdle == RskewIdle /\ FrameIdle /\ SrvIdle /\ MaxpIdle /\ NavIdle /\ YearIdle /\ MissIdle

InitPValue ==
    /\ CpIdle
    /\ DetIdle
    /\ PageIdle
    /\ ScanIdle
    /\ NumIdle
    /\ AppIdle
    /\ thresholds \in [1..Len(p_range) -> 1..MaxStat]
    /\ Ds \in SeqsUpTo((0..MaxStat) \cup {NaN}, MaxLen)
    /\ p_vals = <<>>
    /\ pv_done = FALSE
    /\ pval_df = <<>> /\ df_done = FALSE

\* one call of cp_pvalue_batch (analyze_ts, the tests)
CpPvalueBatch ==
    /\ ~pv_done /\ ~df_done
    /\ p_vals' = cp_pvalue_batch(thresholds, Ds)
    /\ pv_done' = TRUE
    /\ UNCHANGED <<thresholds, Ds, pval_df, df_done>>
    /\ UNCHANGED <<cpVars, detVars, pageVars, scanVars, numVars, appVars>>

\* a faulty variant: the loop over METRICS stops one test short
get_pvalues_short(answers) ==
    [i \in 1..(Len(METRICS) - 1) |->
        [column |-> METRICS[i],
         values |-> cp_pvalue_batch(answers[METRICS[i]].thresholds, answers[METRICS[i]].Ds)]]

\* get_pvalues: for metric in METRICS: pval_df[metric] = cp_pvalue_batch(metric, ts);
\* answers[metric] is what the collaborator returns for that test
get_pvalues(answers) ==
    [i \in 1..Len(METRICS) |->
        [column |-> METRICS[i],
         values |-> cp_pvalue_batch(answers[METRICS[i]].thresholds, answers[METRICS[i]].Ds)]]

\* run_analysis: cpa.pval_df = get_pvalues(cpa.data); the collaborator returns
\* the drawn thresholds and statistics (one per peak) for each of the tests
GetPvalues ==
    /\ ~pv_done /\ ~df_done
    /\ pval_df' = get_pvalues([m \in Range(METRICS) |-> [thresholds |-> thresholds, Ds |-> Ds]])
    /\ df_done' = TRUE
    /\ UNCHANGED <<thresholds, Ds, p_vals, pv_done>>
    /\ UNCHANGED <<cpVars, detVars, pageVars, scanVars, numVars, appVars>>

NextPValue == CpPvalueBatch \/ GetPvalues

SpecPValue == InitPValue /\ [][NextPValue]_vars

(* ------------------------------- claims -------------------------------- *)
Ascending(thr) == \A i \in 1..(Len(thr) - 1) : thr[i] <= thr[i + 1]

\* the alphas whose threshold the statistic d exceeds
ExceededAlphas(thr, d) == {p_range[k] : k \in {j \in 1..Len(p_range) : Exceeds(d, thr[j])}}

SetMax(S) == CHOOSE x \in S : \A y \in S : y <= x
SetMin(S) == CHOOSE x \in S : \A y \in S : x <= y

\* C1 as stated, on numeric statistic values (a NaN statistic is C12's case):
\* with ascending thresholds every statistic value maps to the LARGEST alpha
\* whose threshold it exceeds, NaN when it exceeds none.
C1_LargestAlpha ==
    (pv_done /\ Ascending(thresholds)) =>
        \A i \in {j \in 1..Len(Ds) : Ds[j] # NaN} :
            p_vals[i] = IF ExceededAlphas(thresholds, Ds[i]) = {} THEN NaN
                        ELSE SetMax(ExceededAlphas(thresholds, Ds[i]))

\* C1 amended: with ascending thresholds every numeric statistic value maps to
\* the SMALLEST alpha whose threshold it exceeds and to NaN when it does not
\* exceed the 0.05 threshold; a NaN statistic is ordered above every threshold
\* by the lookup and maps to 0.001.
C1_SmallestAlpha ==
    (pv_done /\ Ascending(thresholds)) =>
        /\ Len(p_vals) = Len(Ds)
        /\ \A i \in 1..Len(Ds) :
            p_vals[i] = IF Ds[i] = NaN THEN 1
                        ELSE IF ExceededAlphas(thresholds, Ds[i]) = {} THEN NaN
                        ELSE SetMin(ExceededAlphas(thresholds, Ds[i]))

\* C1 witness: a call with strictly ascending thresholds where one statistic
\* exceeds two thresholds but not the third, and another exceeds none
C1_Witness ==
    /\ pv_done
    /\ \A i \in 1..3 : thresholds[i] < thresholds[i + 1]
    /\ \E i \in 1..Len(Ds) :
        /\ Exceeds(Ds[i], thresholds[2]) /\ ~Exceeds(Ds[i], thresholds[3])
        /\ p_vals[i] = 10
    /\ \E i \in 1..Len(Ds) : Ds[i] # NaN /\ ~Exceeds(Ds[i], thresholds[1]) /\ p_vals[i] = NaN

\* the values a p-value can take: 0.05, 0.01, 0.005, 0.001 and NaN
Lattice == Range(p_range) \cup {NaN}

\* C11: every entry of the array cp_pvalue_batch returns, and every cell of
\* the matrix get_pvalues builds, is one of 0.05, 0.01, 0.005, 0.001 or NaN
\* whatever statistics and thresholds the collaborator returns (ascending or
\* not), and the matrix has exactly one column per test of METRICS.
C11_PvalueLattice ==
    /\ \A i \in 1..Len(p_vals) : p_vals[i] \in Lattice
    /\ \A c \in 1..Len(pval_df) : \A i \in 1..Len(pval_df[c].values) :
           pval_df[c].values[i] \in Lattice
    /\ df_done =>
           /\ Len(pval_df) = Len(METRICS)
           /\ \A c \in 1..Len(METRICS) :
                  /\ pval_df[c].column = METRICS[c]
                  /\ Len(pval_df[c].values) = Len(Ds)

\* C11 witness: a matrix built from thresholds that are not ascending, whose
\* last column, as the others, holds a NaN cell and a 0.005 cell
C11_Witness ==
    /\ df_done
    /\ ~Ascending(thresholds)
    /\ Len(pval_df) = Len(METRICS)
    /\ pval_df[Len(METRICS)].column = "Mood"
    /\ \E i, j \in 1..Len(Ds) :
           pval_df[Len(METRICS)].values[i] = NaN /\ pval_df[Len(METRICS)].values[j] = 5

\* C12: a NaN batch statistic gives a NaN p-value at its position: it is
\* never turned into a significant p-value or another number.
C12_NaNPropagates ==
    pv_done =>
        \A i \in 1..Len(p_vals) : (Ds[i] = NaN) => (p_vals[i] = NaN)

(* ------------------------ ChangePointAnalysis -------------------------- *)
Metrics == Range(METRICS)

Positions == 0..(NumDates - 1)

\* gaps between consecutive peak dates: exactly 5 years and exactly 10 years
Gaps == {5 * DaysPerYear, 10 * DaysPerYear}

\* the series' index: unique ascending dates, as day numbers from the first
RECURSIVE DateAt(_, _)
DateAt(gaps, i) == IF i = 1 THEN 0 ELSE DateAt(gaps, i - 1) + gaps[i - 1]

Indexes == {[i \in 1..NumDates |-> DateAt(gaps, i)] : gaps \in [1..(NumDates - 1) -> Gaps]}

RECURSIVE SetsUpTo(_, _)
SetsUpTo(S, k) ==
    IF k = 0 THEN {{}}
    ELSE LET R == SetsUpTo(S, k - 1) IN R \cup {r \cup {x} : r \in R, x \in S}

RECURSIVE SortedSeq(_)
SortedSeq(S) ==
    IF S = {} THEN <<>>
    ELSE LET m == CHOOSE x \in S : \A y \in S : x <= y
         IN  <<m>> \o SortedSeq(S \ {m})

\* the answers of cpm_process_stream for the five tests: per test a strictly
\* increasing list of (0-based) positions
StreamResults ==
    {[m \in Metrics |-> SortedSeq({p \in Positions : <<m, p>> \in R})] :
        R \in SetsUpTo(Metrics \X Positions, MaxReports)}

\* ", ".join(list): a string is the sequence of its pieces, a test name being one piece
RECURSIVE Join(_)
Join(list) ==
    IF Len(list) = 0 THEN <<>>
    ELSE IF Len(list) = 1 THEN <<list[1]>>
    ELSE <<list[1], ",", " ">> \o Join(Tail(list))

\* str.split(","): the pieces between the commas ("".split(",") is [""])
RECURSIVE SplitComma(_)
SplitComma(str) ==
    IF \A i \in 1..Len(str) : str[i] # ","
    THEN <<str>>
    ELSE LET c == CHOOSE i \in 1..Len(str) : str[i] = "," /\ \A j \in 1..(i - 1) : str[j] # ","
         IN  <<SubSeq(str, 1, c - 1)>> \o SplitComma(SubSeq(str, c + 1, Len(str)))

DictHas(d, k) == \E i \in 1..Len(d) : d[i].key = k

DictGet(d, k) == (d[CHOOSE i \in 1..Len(d) : d[i].key = k]).val

\* cp_dict[k].append(metric) on a defaultdict(list): a new key goes last
DictAppend(d, k, metric) ==
    IF DictHas(d, k)
    THEN [i \in 1..Len(d) |-> IF d[i].key = k THEN [d[i] EXCEPT !.val = Append(@, metric)] ELSE d[i]]
    ELSE Append(d, [key |-> k, val |-> <<metric>>])

\* for cp in stream_res["changePoints"]: cp_dict[data.index[cp]].append(metric)
RECURSIVE AppendChangePoints(_, _, _, _, _)
AppendChangePoints(d, ix, cps, j, metric) ==
    IF j > Len(cps) THEN d
    ELSE AppendChangePoints(DictAppend(d, ix[cps[j] + 1], metric), ix, cps, j + 1, metric)

\* for metric in METRICS: ...
RECURSIVE ForEachMetric(_, _, _, _)
ForEachMetric(d, ix, sr, i) ==
    IF i > Len(METRICS) THEN d
    ELSE ForEachMetric(AppendChangePoints(d, ix, sr[METRICS[i]], 1, METRICS[i]), ix, sr, i + 1)

\* a faulty variant: the test loop stops one test short
get_changepoints_short(ix, sr) ==
    LET RECURSIVE Loop(_, _)
        Loop(d, i) ==
            IF i > Len(METRICS) - 1 THEN d
            ELSE Loop(AppendChangePoints(d, ix, sr[METRICS[i]], 1, METRICS[i]), i + 1)
        lists == Loop(<<>>, 1)
    IN  [i \in 1..Len(lists) |-> [key |-> lists[i].key, val |-> Join(lists[i].val)]]

get_changepoints(ix, sr) ==
    LET lists == ForEachMetric(<<>>, ix, sr, 1)
    IN  [i \in 1..Len(lists) |-> [key |-> lists[i].key, val |-> Join(lists[i].val)]]

RECURSIVE MaxTestCount(_, _, _)
MaxTestCount(d, i, test_count) ==
    IF i > Len(d) THEN test_count
    ELSE LET tmp == Len(SplitComma(d[i].val))
         IN  MaxTestCount(d, i + 1, IF tmp > test_count THEN tmp ELSE test_count)

\* a faulty variant: "strong" only above three agreeing tests
evidence_level_late(d) ==
    LET test_count == MaxTestCount(d, 1, 0)
    IN  IF test_count = 0 THEN "no"
        ELSE IF test_count = 1 THEN "limited"
        ELSE IF test_count = 2 \/ test_count = 3 THEN "moderate"
        ELSE "strong"

evidence_level(d) ==
    LET test_count == MaxTestCount(d, 1, 0)
    IN  IF test_count = 0 THEN "no"
        ELSE IF test_count = 1 THEN "limited"
        ELSE IF test_count = 2 THEN "moderate"
        ELSE IF test_count > 2 THEN "strong"
        ELSE "None"

\* a faulty variant: a nonstationarity only from the second changepoint on
nonstationary_several(d) == Len(d) > 1

\* ChangePointAnalysis.nonstationary: len(self.cp_dict) > 0
nonstationary(d) == Len(d) > 0

\* the loop of get_change_windows over dates[i], i = 1..len(dates)-1 (0-based);
\* (dates[i] - current_group[-1]).days / 365 < max_dist, in days
RECURSIVE WindowLoop(_, _, _, _, _, _, _)
WindowLoop(d, i, max_dist, groups, test_counts, current_group, current_group_tests) ==
    IF i > Len(d)
    THEN [groups |-> Append(groups, current_group),
          test_counts |-> Append(test_counts, Cardinality(current_group_tests))]
    ELSE IF (d[i].key - current_group[Len(current_group)]) < max_dist * DaysPerYear
    THEN WindowLoop(d, i + 1, max_dist, groups, test_counts,
                    Append(current_group, d[i].key),
                    current_group_tests \cup Range(SplitComma(d[i].val)))
    ELSE WindowLoop(d, i + 1, max_dist,
                    Append(groups, current_group),
                    Append(test_counts, Cardinality(current_group_tests)),
                    <<d[i].key>>, Range(SplitComma(d[i].val)))

\* dates[0] of an empty record raises IndexError
get_change_windows(d, max_dist) ==
    IF Len(d) = 0 THEN [raised |-> "IndexError", groups |-> <<>>, test_counts |-> <<>>]
    ELSE LET r == WindowLoop(d, 2, max_dist, <<>>, <<>>, <<d[1].key>>, Range(SplitComma(d[1].val)))
         IN  [raised |-> "none", groups |-> r.groups, test_counts |-> r.test_counts]

MaxDists == {5, DefaultMaxDist}

InitCP ==
    /\ PvIdle
    /\ DetIdle
    /\ PageIdle
    /\ ScanIdle
    /\ NumIdle
    /\ AppIdle
    /\ index \in Indexes
    /\ stream_res \in StreamResults
    /\ cp_dict = <<>>
    /\ evidence = "unread"
    /\ windows = <<>>
    /\ cp_pc = "new"

\* run_analysis: cpa.cp_dict = get_changepoints(cpa.data, arl0, burn_in)
GetChangepoints ==
    /\ cp_pc = "new"
    /\ cp_dict' = get_changepoints(index, stream_res)
    /\ cp_pc' = "analysed"
    /\ UNCHANGED <<index, stream_res, evidence, windows>>
    /\ UNCHANGED <<pvVars, detVars, pageVars, scanVars, numVars, appVars>>

\* summary_text reads evidence_level
EvidenceLevel ==
    /\ cp_pc = "analysed"
    /\ evidence' = evidence_level(cp_dict)
    /\ cp_pc' = "summarised"
    /\ UNCHANGED <<index, stream_res, cp_dict, windows>>
    /\ UNCHANGED <<pvVars, detVars, pageVars, scanVars, numVars, appVars>>

\* results_text, rendered when the record is not empty, calls get_change_windows
GetChangeWindows ==
    /\ cp_pc = "summarised"
    /\ Len(cp_dict) > 0
    /\ \E max_dist \in MaxDists :
        windows' = [max_dist |-> max_dist] @@ get_change_windows(cp_dict, max_dist)
    /\ cp_pc' = "described"
    /\ UNCHANGED <<index, stream_res, cp_dict, evidence>>
    /\ UNCHANGED <<pvVars, detVars, pageVars, scanVars, numVars, appVars>>

NextCP == GetChangepoints \/ EvidenceLevel \/ GetChangeWindows

SpecCP == InitCP /\ [][NextCP]_vars

(* --------------------- claims on ChangePointAnalysis ------------------- *)
\* the streaming scan of test m reported position p
Reported(m, p) == \E j \in 1..Len(stream_res[m]) : stream_res[m][j] = p

TestsAt(p) == {m \in Metrics : Reported(m, p)}

\* the largest number of tests that reported one and the same position
MaxAgreeing == SetMax({Cardinality(TestsAt(p)) : p \in Positions} \cup {0})

\* C2: evidence_level is "no", "limited", "moderate", "strong" for a largest
\* per-timestamp number of agreeing tests of 0, 1, 2, more than 2, whichever
\* tests agree, and is always one of these four words.
C2_EvidenceLevel ==
    (cp_pc \in {"summarised", "described"}) =>
        /\ evidence \in {"no", "limited", "moderate", "strong"}
        /\ evidence = IF MaxAgreeing = 0 THEN "no"
                      ELSE IF MaxAgreeing = 1 THEN "limited"
                      ELSE IF MaxAgreeing = 2 THEN "moderate"
                      ELSE "strong"

\* C2 witness: three tests other than the first three agree on one timestamp
\* and the level read is "strong"
C2_Witness ==
    /\ cp_pc = "summarised"
    /\ MaxAgreeing = 3
    /\ \E p \in Positions : TestsAt(p) = {"Lepage", "Mann-Whitney", "Mood"}
    /\ evidence = "strong"

\* C3: data.index[cp] is a key of the record iff at least one test's streaming
\* scan reported cp, and the value under it names exactly the tests that
\* reported cp, each once, in METRICS order.
C3_RecordIsUnionOfScans ==
    (cp_pc # "new") =>
        /\ \A i, j \in 1..Len(cp_dict) : cp_dict[i].key = cp_dict[j].key => i = j
        /\ \A i \in 1..Len(cp_dict) : \E p \in Positions : cp_dict[i].key = index[p + 1]
        /\ \A p \in Positions :
            LET AtP(m) == Reported(m, p)
            IN  /\ DictHas(cp_dict, index[p + 1]) <=> (TestsAt(p) # {})
                /\ DictHas(cp_dict, index[p + 1]) =>
                       DictGet(cp_dict, index[p + 1]) = Join(SelectSeq(METRICS, AtP))

\* C3 witness: a record with two timestamps, one flagged by two tests and
\* one by a single test that is not the first of METRICS
C3_Witness ==
    /\ cp_pc = "analysed"
    /\ Len(cp_dict) = 2
    /\ \E p, q \in Positions :
        /\ p # q
        /\ TestsAt(p) = {"Kolmogorov-Smirnov", "Mood"}
        /\ TestsAt(q) = {"Lepage"}
        /\ DictGet(cp_dict, index[p + 1]) = <<"Kolmogorov-Smirnov", ",", " ", "Mood">>

WindowSet(g) == Range(windows.groups[g])

\* C4: the windows of get_change_windows partition the changepoint dates into
\* windows contiguous in time: every date is in exactly one window, no date of a
\* window lies between two dates of another, inside a window each date is less
\* than max_dist years after the chronologically preceding date of the window,
\* and dates of different windows are at least max_dist years apart.
C4_WindowsContiguous ==
    (cp_pc = "described") =>
        LET G == 1..Len(windows.groups)
            limit == windows.max_dist * DaysPerYear
        IN  /\ windows.raised = "none"
            /\ \A i \in 1..Len(cp_dict) :
                   Cardinality({g \in G : cp_dict[i].key \in WindowSet(g)}) = 1
            /\ \A g \in G : \A a \in WindowSet(g) : DictHas(cp_dict, a)
            /\ \A g \in G : Cardinality(WindowSet(g)) = Len(windows.groups[g])
            /\ \A g, h \in G : g # h =>
                   \A a, b \in WindowSet(g) : \A c \in WindowSet(h) : ~(a < c /\ c < b)
            /\ \A g \in G : \A b \in WindowSet(g) :
                   LET before == {a \in WindowSet(g) : a < b}
                   IN  before # {} => (b - SetMax(before)) < limit
            /\ \A g, h \in G : g # h =>
                   \A a \in WindowSet(g) : \A c \in WindowSet(h) :
                       (IF a < c THEN c - a ELSE a - c) >= limit

\* C5: the test count of every change window is the number of distinct tests
\* that flagged at least one changepoint inside the window.
C5_WindowTestCount ==
    (cp_pc = "described") =>
        /\ Len(windows.test_counts) = Len(windows.groups)
        /\ \A g \in 1..Len(windows.groups) :
               windows.test_counts[g] =
                   Cardinality({m \in Metrics :
                       \E p \in Positions : Reported(m, p) /\ index[p + 1] \in WindowSet(g)})

\* C26: for every record built by get_changepoints, nonstationary is True if
\* and only if evidence_level is not "no": summary_text never reports "no"
\* evidence with one or more changepoints, nor some evidence with none.
C26_NonstationaryIffEvidence ==
    (cp_pc \in {"summarised", "described"}) =>
        (nonstationary(cp_dict) <=> (evidence # "no"))

\* C26 witness: a record of a single changepoint flagged by a single test,
\* read as nonstationary with "limited" evidence
C26_Witness ==
    /\ cp_pc = "summarised"
    /\ Len(cp_dict) = 1
    /\ nonstationary(cp_dict)
    /\ evidence = "limited"

\* C26 witness of the other side: an empty record, stationary, "no" evidence
C26_WitnessEmpty ==
    /\ cp_pc = "summarised"
    /\ ~nonstationary(cp_dict)
    /\ evidence = "no"

(* -------------------------- ChangePointModel --------------------------- *)
\* ts[:ind] and ts[ind:] for 0 <= ind <= len(ts)
Head0(s, ind) == SubSeq(s, 1, ind)
Tail0(s, ind) == SubSeq(s, ind + 1, Len(s))

\* the values a test statistic takes: below, at and above the fill value 0
StatVals == {-1, 0, 1, 2}

\* every split of a series into (ts[:i], ts[i:])
Splits(s) == {<<Head0(s, i), Tail0(s, i)>> : i \in 0..Len(s)}

\* a series of n distinct peak values
Series(n) == [i \in 1..n |-> i]

\* self.test_statistic(s1, s2): the subclass's statistic, a function of the two samples
test_statistic(stat, s1, s2) == stat[<<s1, s2>>]

\* a faulty variant: the check against the burn-in length alone
validate_ts_single(s, b) == Len(s) < b

\* validate_ts: TRUE when ShortTimeSeries is raised
validate_ts(s, b) == Len(s) < (2 * b)

Zeros(n) == [i \in 1..n |-> 0]

\* for ind in range(burn_in, len(ts) - burn_in): the calls made and the values appended
RECURSIVE ScanSplits(_, _, _, _, _, _)
ScanSplits(s, b, stat, ind, pvals, calls) ==
    IF ind >= Len(s) - b THEN [pvals |-> pvals, calls |-> calls]
    ELSE LET s1 == Head0(s, ind)
             s2 == Tail0(s, ind)
         IN  ScanSplits(s, b, stat, ind + 1,
                        Append(pvals, test_statistic(stat, s1, s2)),
                        Append(calls, <<s1, s2>>))

\* a faulty variant: the index of the last maximum
argmax_last(a) == (CHOOSE i \in 1..Len(a) : (\A j \in 1..Len(a) : a[j] <= a[i])
                                            /\ (\A j \in (i + 1)..Len(a) : a[j] < a[i])) - 1

\* np.argmax of a non-empty list: the 0-based index of the first maximum
argmax(a) == (CHOOSE i \in 1..Len(a) : (\A j \in 1..Len(a) : a[j] <= a[i])
                                       /\ (\A j \in 1..(i - 1) : a[j] < a[i])) - 1

\* detect_change_point; np.argmax of an empty list raises ValueError
detect_change_point(s, b, stat) ==
    IF validate_ts(s, b)
    THEN [raised |-> "ShortTimeSeries", pvals |-> <<>>, cp |-> "none", calls |-> <<>>]
    ELSE LET looped == ScanSplits(s, b, stat, b, Zeros(b), <<>>)
             pvals == looped.pvals \o Zeros(b)
         IN  IF Len(pvals) = 0
             THEN [raised |-> "ValueError", pvals |-> <<>>, cp |-> "none", calls |-> looped.calls]
             ELSE [raised |-> "none", pvals |-> pvals, cp |-> argmax(pvals), calls |-> looped.calls]

InitDetect ==
    /\ PvIdle
    /\ CpIdle
    /\ PageIdle
    /\ ScanIdle
    /\ NumIdle
    /\ AppIdle
    /\ \E n \in 0..MaxN : ts = Series(n)
    /\ burn_in \in 0..MaxBurnIn
    /\ statistic \in [Splits(ts) -> StatVals]
    /\ det_result = <<>>
    /\ det_pc = "new"

\* ks_cpm / cvm_cpm / lapage_cpm: cpm.detect_change_point(ts)
DetectChangePoint ==
    /\ det_pc = "new"
    /\ det_result' = detect_change_point(ts, burn_in, statistic)
    /\ det_pc' = "done"
    /\ UNCHANGED <<ts, burn_in, statistic>>
    /\ UNCHANGED <<pvVars, cpVars, pageVars, scanVars, numVars, appVars>>

NextDetect == DetectChangePoint

SpecDetect == InitDetect /\ [][NextDetect]_vars

(* ----------------------- claims on ChangePointModel -------------------- *)
\* C7: detect_change_point raises ShortTimeSeries exactly when
\* len(ts) < 2 x burn_in, before any test statistic is evaluated and without
\* returning a profile.
C7_ShortTimeSeries ==
    (det_pc = "done") =>
        /\ (det_result.raised = "ShortTimeSeries") <=> (Len(ts) < 2 * burn_in)
        /\ (det_result.raised = "ShortTimeSeries") =>
               (det_result.calls = <<>> /\ det_result.pvals = <<>> /\ det_result.cp = "none")

\* C7 witness: a series one value short of 2 x burn_in was refused
C7_Witness ==
    /\ det_pc = "done"
    /\ burn_in = 2 /\ Len(ts) = 3
    /\ det_result.raised = "ShortTimeSeries"

\* C8: for a series of length n >= 2 x burn_in the changepoint index returned
\* lies outside the burn-in margins: burn_in <= cp < n - burn_in.
C8_OutsideMargins ==
    (det_pc = "done" /\ Len(ts) >= 2 * burn_in /\ det_result.raised = "none") =>
        (burn_in <= det_result.cp /\ det_result.cp < Len(ts) - burn_in)

\* what C9 says of a returned profile and changepoint
ProfileAsSpecified ==
    LET n == Len(ts)
        pvals == det_result.pvals
        admissible == {i \in 0..(n - 1) : burn_in <= i /\ i < n - burn_in}
    IN  /\ det_result.raised = "none"
        /\ Len(pvals) = n
        /\ \A i \in (0..(n - 1)) \ admissible : pvals[i + 1] = 0
        /\ \A i \in admissible : pvals[i + 1] = statistic[<<Head0(ts, i), Tail0(ts, i)>>]
        /\ Len(det_result.calls) = Cardinality(admissible)
        /\ \A k \in 1..Len(det_result.calls) :
               det_result.calls[k] = <<Head0(ts, burn_in + k - 1), Tail0(ts, burn_in + k - 1)>>
        /\ det_result.cp \in 0..(n - 1)
        /\ \A j \in 1..n : pvals[j] <= pvals[det_result.cp + 1]
        /\ \A j \in 1..det_result.cp : pvals[j] < pvals[det_result.cp + 1]

C24_NonEmptySamples ==
    (det_pc = "done" /\ Len(ts) >= 2 * burn_in) =>
        \A k \in 1..Len(det_result.calls) :
            /\ Len(det_result.calls[k][1]) >= 1
            /\ Len(det_result.calls[k][2]) >= 1

(* ------------------------- the changepoint page ------------------------ *)
\* what the sidebar's gage text input can hold: a gage number and a text that
\* is not numeric
GageInputs == {"01151500", "abc"}

isnumeric(g) == g = "01151500"

\* the ARL0 slider, left at its default value
DefaultArl0 == 1000

\* what get_ams answers: None, a record without peaks, or a peak series
AmsAnswers ==
    {[kind |-> "None"], [kind |-> "no peaks"]}
        \cup {[kind |-> "peaks", len |-> n] : n \in 0..MaxPeaks}

\* how run_analysis ends: returns, or a collaborator call raises in
\* get_pvalues or in get_changepoints
AnalysisOutcomes == {"returns", "get_pvalues raises", "get_changepoints raises"}

\* the collaborator calls run_analysis makes for one test: four threshold
\* lookups and the batch statistic in get_pvalues, the stream scan in
\* get_changepoints
CollaboratorCalls == {"get_batch_threshold", "cpm_detect_change_point_batch", "cpm_process_stream"}

NoFailure == [call |-> "none", metric |-> "none"]

\* the tests whose calls are made to fail: the first and the last of the loops
FailingTests == {METRICS[1], METRICS[Len(METRICS)]}

\* which collaborator call fails in a run (requests raises, or the answer is
\* not the JSON expected), if any
CollaboratorFailures ==
    {NoFailure} \cup {[call |-> c, metric |-> m] : c \in CollaboratorCalls, m \in FailingTests}

\* a faulty variant: a failed threshold lookup is replaced by a default threshold
analysis_outcome_default(failure) ==
    IF failure.call \in {"none", "get_batch_threshold"} THEN "returns"
    ELSE IF failure.call = "cpm_detect_change_point_batch" THEN "get_pvalues raises"
    ELSE "get_changepoints raises"

\* how run_analysis ends: no call is wrapped in a try, so the first failing
\* call ends get_pvalues or get_changepoints, and with it run_analysis
analysis_outcome(failure) ==
    IF failure.call = "none" THEN "returns"
    ELSE IF failure.call \in {"get_batch_threshold", "cpm_detect_change_point_batch"}
    THEN "get_pvalues raises"
    ELSE "get_changepoints raises"

\* ChangePointAnalysis.get_data, given what get_ams answered
get_data(ss, obj, data) ==
    IF data.kind = "None"
    THEN [session |-> [ss EXCEPT !.valid_data = FALSE, !.data_comment = "Unable to retrieve data."],
          cpa |-> obj]
    ELSE IF data.kind = "no peaks"
    THEN [session |-> [ss EXCEPT !.valid_data = FALSE, !.data_comment = "Unable to retrieve data."],
          cpa |-> obj]
    ELSE IF data.len < ss.burn_in
    THEN [session |-> [ss EXCEPT !.valid_data = FALSE, !.data_comment = "Not enough peaks available for analysis."],
          cpa |-> obj]
    ELSE [session |-> [ss EXCEPT !.valid_data = TRUE],
          cpa |-> [obj EXCEPT !.data = data]]

\* define_variables; ChangePointAnalysis(gage_id) stores the gage id as data
define_variables(ss, obj, data) ==
    IF ss.gage_id = "None" \/ ~isnumeric(ss.gage_id)
    THEN [session |-> [ss EXCEPT !.valid_data = FALSE, !.data_comment = "Invalid USGS gage provided."],
          cpa |-> obj, fetched |-> FALSE]
    ELSE LET made == IF obj.made THEN obj
                     ELSE [made |-> TRUE, data |-> [kind |-> "str"],
                           pval_df |-> [kind |-> "None"], cp_dict |-> [kind |-> "empty"]]
             got == get_data(ss, made, data)
         IN  [session |-> got.session, cpa |-> got.cpa, fetched |-> TRUE]

\* run_analysis: pval_df and cp_dict are computed from cpa.data (their content
\* is that of get_pvalues and get_changepoints above); an exception leaves
\* what it has not assigned yet
run_analysis(ss, obj, outcome) ==
    IF outcome = "get_pvalues raises" THEN obj
    ELSE IF outcome = "get_changepoints raises"
    THEN [obj EXCEPT !.pval_df = [kind |-> "of", len |-> obj.data.len]]
    ELSE [obj EXCEPT !.pval_df = [kind |-> "of", len |-> obj.data.len],
                     !.cp_dict = [kind |-> "of", len |-> obj.data.len]]

\* init_session_state and the home page: a gage id is set before the page shows
InitPage ==
    /\ PvIdle
    /\ CpIdle
    /\ DetIdle
    /\ ScanIdle
    /\ NumIdle
    /\ AppIdle
    /\ session = [gage_id |-> "01151500", arlo_slider |-> DefaultArl0, burn_in |-> 0,
                  valid_data |-> "unset", data_comment |-> "unset"]
    /\ cpa = [made |-> FALSE]
    /\ page_run = [ams |-> [kind |-> "not called"], analysed |-> FALSE,
                   failure |-> NoFailure, raised |-> FALSE, shown |-> "nothing"]

\* one run of changepoint(): make_sidebar, define_variables, then the
\* analysis and the body, or an error
changepoint ==
    \E g \in GageInputs, b \in 0..PageMaxBurnIn :
        LET sidebar == [session EXCEPT !.gage_id = g, !.arlo_slider = DefaultArl0, !.burn_in = b]
        IN  \E data \in IF isnumeric(g) THEN AmsAnswers ELSE {[kind |-> "not called"]} :
            LET defined == define_variables(sidebar, cpa, data)
                valid == defined.session.valid_data = TRUE
            IN  \E failure \in IF valid THEN CollaboratorFailures ELSE {NoFailure} :
                LET outcome == analysis_outcome(failure)
                IN  /\ outcome \in AnalysisOutcomes
                    /\ session' = defined.session
                    /\ cpa' = IF valid THEN run_analysis(defined.session, defined.cpa, outcome)
                              ELSE defined.cpa
                    /\ page_run' = [ams |-> data,
                                    analysed |-> valid,
                                    failure |-> failure,
                                    raised |-> valid /\ outcome # "returns",
                                    shown |-> IF ~valid THEN "data_comment"
                                              ELSE IF outcome = "returns" THEN "body"
                                              ELSE "model error"]
                    /\ UNCHANGED <<pvVars, cpVars, detVars, scanVars, numVars, appVars>>

NextPage == changepoint

SpecPage == InitPage /\ [][NextPage]_vars

(* ----------------------- claims on the changepoint page ---------------- *)
\* C6: when the retrieved peak series has fewer than 2 x burn_in values,
\* get_data marks the data invalid with a 'not enough peaks' comment and the
\* analysis is not run on that series.
C6_ShortSeriesRefused ==
    (page_run.ams.kind = "peaks" /\ page_run.ams.len < 2 * session.burn_in) =>
        /\ session.valid_data = FALSE
        /\ session.data_comment = "Not enough peaks available for analysis."
        /\ ~page_run.analysed

\* C13: in one run of the page make_body executes only if valid_data is True
\* and run_analysis returned without raising; a failing collaborator call
\* (threshold lookup, batch statistic or stream scan, for any test) propagates
\* out of run_analysis, nothing is substituted for the missing result, and an
\* error message is shown instead of the results.
C13_BodyOnlyAfterAnalysis ==
    /\ (page_run.shown = "body") =>
           (session.valid_data = TRUE /\ page_run.analysed /\ ~page_run.raised
               /\ page_run.failure = NoFailure
               /\ cpa.pval_df = [kind |-> "of", len |-> page_run.ams.len]
               /\ cpa.cp_dict = [kind |-> "of", len |-> page_run.ams.len])
    /\ (page_run.analysed /\ page_run.failure # NoFailure) =>
           (page_run.raised /\ page_run.shown = "model error")
    /\ (page_run.shown # "nothing" /\ session.valid_data # TRUE) =>
           (~page_run.analysed /\ page_run.shown = "data_comment")

\* C13 witness: after a run that showed the results, a run with valid data in
\* which the threshold lookup of the last test fails shows the model error
C13_Witness ==
    /\ page_run.analysed
    /\ session.valid_data = TRUE
    /\ page_run.failure = [call |-> "get_batch_threshold", metric |-> "Mood"]
    /\ page_run.shown = "model error"
    /\ cpa.made /\ cpa.cp_dict.kind = "of"

(* ------------------- the streaming scan (process_stream) --------------- *)
\* The scan runs in the R server (server.r); it is modelled from the
\* specification's section 4.2 and design notes: a machine with the states
\* Accumulating(segment_start) and ChangepointDeclared(position).

Last(s) == s[Len(s)]

\* the samples of the open segment, which the statistic at a scan position reads
OpenSegment(seg_start, pos) == seg_start..pos

\* cpm_process_stream(x, cpm_type, arl0, burn_in): the request is sent; the
\* threshold is the one calibrated for the chosen ARL0
InitScan ==
    /\ PvIdle
    /\ CpIdle
    /\ DetIdle
    /\ PageIdle
    /\ NumIdle
    /\ AppIdle
    /\ \E n \in 1..MaxStream, h \in 0..(MaxSegStat - 1) :
        scan = [n |-> n, threshold |-> h, phase |-> "Accumulating",
                seg_start |-> 0, pos |-> 0, cps |-> <<>>, evals |-> <<>>]
    /\ stream_out = [kind |-> "pending"]

\* the statistic of the open segment is evaluated at the scan position; above
\* the threshold a changepoint is recorded at that position
ScanPosition ==
    /\ scan.phase = "Accumulating"
    /\ scan.pos < scan.n
    /\ \E v \in 0..MaxSegStat :
        LET e == [seg_start |-> scan.seg_start, pos |-> scan.pos,
                  used |-> OpenSegment(scan.seg_start, scan.pos),
                  value |-> v, before |-> Len(scan.cps)]
        IN  scan' = IF v > scan.threshold
                    THEN [scan EXCEPT !.evals = Append(@, e),
                                      !.cps = Append(@, scan.pos),
                                      !.phase = "ChangepointDeclared"]
                    ELSE [scan EXCEPT !.evals = Append(@, e),
                                      !.pos = @ + 1]
    /\ UNCHANGED stream_out
    /\ UNCHANGED <<pvVars, cpVars, detVars, pageVars, numVars, appVars>>

\* a faulty variant: the new segment keeps the sample of the changepoint
RestartKeepingSample ==
    /\ scan.phase = "ChangepointDeclared"
    /\ scan' = [scan EXCEPT !.phase = "Accumulating",
                            !.seg_start = Last(scan.cps),
                            !.pos = Last(scan.cps) + 1]
    /\ UNCHANGED stream_out
    /\ UNCHANGED <<pvVars, cpVars, detVars, pageVars, numVars, appVars>>

\* a new open segment begins at the position immediately after the changepoint
Restart ==
    /\ scan.phase = "ChangepointDeclared"
    /\ scan' = [scan EXCEPT !.phase = "Accumulating",
                            !.seg_start = Last(scan.cps) + 1,
                            !.pos = Last(scan.cps) + 1]
    /\ UNCHANGED stream_out
    /\ UNCHANGED <<pvVars, cpVars, detVars, pageVars, numVars, appVars>>

\* the stream is exhausted: cpm_process_stream returns response.json()
ReturnChangePoints ==
    /\ scan.phase = "Accumulating"
    /\ scan.pos = scan.n
    /\ scan' = [scan EXCEPT !.phase = "Done"]
    /\ stream_out' = [kind |-> "json", changePoints |-> scan.cps]
    /\ UNCHANGED <<pvVars, cpVars, detVars, pageVars, numVars, appVars>>

NextScan == ScanPosition \/ Restart \/ ReturnChangePoints

SpecScan == InitScan /\ [][NextScan]_vars

(* ----------------------- claims on the streaming scan ------------------ *)
\* C10: a changepoint is recorded only where the statistic of the open segment
\* exceeded the ARL0 threshold at that scan position; after a changepoint at p
\* the next open segment starts at p+1 and no later evaluation reads a sample
\* at or before p; the changepoints are strictly increasing in position.
C10_ScanAndRestart ==
    /\ \A k \in 1..Len(scan.cps) :
        \E i \in 1..Len(scan.evals) :
            /\ scan.evals[i].pos = scan.cps[k]
            /\ scan.evals[i].value > scan.threshold
            /\ scan.evals[i].before = k - 1
    /\ \A i \in 1..Len(scan.evals) :
        (scan.evals[i].value > scan.threshold) =>
            (scan.evals[i].before < Len(scan.cps)
                /\ scan.cps[scan.evals[i].before + 1] = scan.evals[i].pos)
    /\ (scan.phase = "Accumulating" /\ scan.cps # <<>>) =>
        scan.seg_start = Last(scan.cps) + 1
    /\ \A i \in 1..Len(scan.evals) : \A k \in 1..scan.evals[i].before :
        \A u \in scan.evals[i].used : u > scan.cps[k]
    /\ \A k \in 1..(Len(scan.cps) - 1) : scan.cps[k] < scan.cps[k + 1]
    /\ (stream_out.kind = "json") => (stream_out.changePoints = scan.cps)

\* C10 witness: a scan that returned two changepoints, the second found in
\* the segment opened right after the first
C10_Witness ==
    /\ stream_out.kind = "json"
    /\ stream_out.changePoints = <<1, 3>>
    /\ \E i \in 1..Len(scan.evals) :
        scan.evals[i].pos = 3 /\ scan.evals[i].used = {2, 3} /\ scan.evals[i].value > scan.threshold

(* --------------------------- exact arithmetic -------------------------- *)
\* The numerical routines are modelled in exact rational arithmetic: a number
\* is [n |-> numerator, d |-> denominator] in lowest terms with d > 0.
Abs(x) == IF x < 0 THEN -x ELSE x

RECURSIVE GCD(_, _)
GCD(a, b) == IF b = 0 THEN a ELSE GCD(b, a % b)

Rat(n, d) ==
    LET g == GCD(Abs(n), Abs(d))
        sign == IF d < 0 THEN -1 ELSE 1
    IN  [n |-> (sign * n) \div g, d |-> (sign * d) \div g]

Whole(k) == [n |-> k, d |-> 1]

\* sums and products cancel common factors first, to keep the integers small
RatAdd(x, y) ==
    LET g == GCD(x.d, y.d)
    IN  Rat((x.n * (y.d \div g)) + (y.n * (x.d \div g)), (x.d \div g) * y.d)
RatSub(x, y) == RatAdd(x, [n |-> -y.n, d |-> y.d])
RatMul(x, y) ==
    LET g1 == GCD(Abs(x.n), y.d)
        g2 == GCD(Abs(y.n), x.d)
    IN  Rat((x.n \div g1) * (y.n \div g2), (x.d \div g2) * (y.d \div g1))
\* x / y for y # 0
RatDiv(x, y) == Rat(x.n * y.d, x.d * y.n)
RatAbs(x) == [n |-> Abs(x.n), d |-> x.d]
RatLess(x, y) == (x.n * y.d) < (y.n * x.d)
RatLeq(x, y) == (x.n * y.d) <= (y.n * x.d)

(* ------------------ LP3Analysis: the weighted skew --------------------- *)
\* largest |station skew| drawn, in tenths
MaxSkewTenths == 16

\* station skews: a grid of tenths that holds the breakpoints 0.9 and 1.5
StationSkews == {Rat(k, 10) : k \in (-MaxSkewTenths)..MaxSkewTenths}

\* map skews (Gage.regional_skew)
MapSkews == {Rat(-4, 10), Whole(0), Rat(2, 10)}

\* len(self.peaks): powers of ten, whose log10 is exact
PeakCounts == {1, 10, 100}

\* np.log10(n / 10)
Log10Tenth(n) == CASE n = 1 -> Whole(-1) [] n = 10 -> Whole(0) [] n = 100 -> Whole(1)

\* the values 10 ** x takes: positive numbers on both sides of mse_g
PowerValues == {Rat(1, 10), Rat(302, 1000), Whole(1), Whole(4)}

\* 10 ** x is irrational for most x; it is positive whatever x is, and is
\* modelled as the positive number drawn for it
Power10(x, value) == value

NotRead == [raised |-> "not read"]

\* mse_station_skew: in the branch abs_g > 1.5 the constant 0.55 is assigned
\* to a, b stays unbound and the return expression raises UnboundLocalError
mse_station_skew(station_skew, n, value) ==
    LET abs_g == RatAbs(station_skew)
        a == IF RatLeq(abs_g, Rat(9, 10))
             THEN RatAdd(Rat(-33, 100), RatMul(Rat(8, 100), abs_g))
             ELSE RatAdd(Rat(-52, 100), RatMul(Rat(30, 100), abs_g))
    IN  IF RatLeq(abs_g, Rat(15, 10))
        THEN LET b == RatSub(Rat(94, 100), RatMul(Rat(26, 100), abs_g))
                 exponent == RatSub(a, RatMul(b, Log10Tenth(n)))
             IN  [raised |-> "none", a |-> a, b |-> b, exponent |-> exponent,
                  value |-> Power10(exponent, value)]
        ELSE [raised |-> "UnboundLocalError", a |-> Rat(55, 100)]

\* mse_g, from the PeakFQ manual
mse_g == Rat(302, 1000)

\* a faulty variant: the denominator leaves out the station's weight
weighted_skew_unweighted(g_s, g_g, mse) ==
    IF mse.raised # "none" THEN [raised |-> mse.raised]
    ELSE LET mse_s == mse.value
         IN  [raised |-> "none",
              value |-> RatDiv(RatAdd(RatDiv(g_s, mse_s), RatDiv(g_g, mse_g)),
                               RatDiv(Whole(1), mse_g))]

\* weighted_skew; mse is what the property mse_station_skew gave
weighted_skew(g_s, g_g, mse) ==
    IF mse.raised # "none" THEN [raised |-> mse.raised]
    ELSE LET mse_s == mse.value
         IN  [raised |-> "none",
              value |-> RatDiv(RatAdd(RatDiv(g_s, mse_s), RatDiv(g_g, mse_g)),
                               RatAdd(RatDiv(Whole(1), mse_s), RatDiv(Whole(1), mse_g)))]

InitSkew ==
    /\ EngineIdle
    /\ AppIdle
    /\ LmomIdle /\ MoodIdle /\ QuantIdle
    /\ lp3 \in [station_skew : StationSkews, map_skew : MapSkews,
                n_peaks : PeakCounts, power10 : PowerValues]
    /\ skew_res = [mse |-> NotRead, weighted |-> NotRead]

\* the property mse_station_skew is read
MseStationSkew ==
    /\ skew_res.mse = NotRead
    /\ skew_res' = [skew_res EXCEPT
                        !.mse = mse_station_skew(lp3.station_skew, lp3.n_peaks, lp3.power10)]
    /\ UNCHANGED lp3
    /\ UNCHANGED <<engineVars, appVars, lmomVars, moodVars, quantVars>>

\* the property weighted_skew is read (parameters, with use_map_skew)
WeightedSkew ==
    /\ skew_res.weighted = NotRead
    /\ skew_res' = [skew_res EXCEPT
                        !.weighted = weighted_skew(lp3.station_skew, lp3.map_skew,
                            mse_station_skew(lp3.station_skew, lp3.n_peaks, lp3.power10))]
    /\ UNCHANGED lp3
    /\ UNCHANGED <<engineVars, appVars, lmomVars, moodVars, quantVars>>

NextSkew == MseStationSkew \/ WeightedSkew

SpecSkew == InitSkew /\ [][NextSkew]_vars

(* ----------------------- claims on the weighted skew ------------------- *)
\* C14: for every station skew g_s and every n >= 1, mse_station_skew selects
\* a and b from |g_s| by the piecewise rule with breakpoints 0.9 and 1.5 and
\* returns 10^(a - b*log10(n/10)); it returns a value on every branch,
\* |g_s| > 1.5 included.
C14_MseEveryBranch ==
    (skew_res # <<>> /\ skew_res.mse # NotRead) =>
        LET abs_g == RatAbs(lp3.station_skew)
            r == skew_res.mse
        IN  /\ r.raised = "none"
            /\ r.a = IF RatLeq(abs_g, Rat(9, 10))
                     THEN RatAdd(Rat(-33, 100), RatMul(Rat(8, 100), abs_g))
                     ELSE RatAdd(Rat(-52, 100), RatMul(Rat(30, 100), abs_g))
            /\ RatLeq(abs_g, Rat(15, 10)) =>
                   r.b = RatSub(Rat(94, 100), RatMul(Rat(26, 100), abs_g))
            /\ r.exponent = RatSub(r.a, RatMul(r.b, Log10Tenth(lp3.n_peaks)))
            /\ r.value = Power10(r.exponent, lp3.power10)

\* C15: whenever mse_station_skew gives a (positive) MSE_s, weighted_skew is
\* (g_s/MSE_s + g_g/MSE_g) / (1/MSE_s + 1/MSE_g) with MSE_g = 0.302, which is
\* (g_s*MSE_g + g_g*MSE_s) / (MSE_s + MSE_g); it lies strictly between g_s and
\* g_g when they differ and equals them when they are equal.
C15_WeightedSkewBetween ==
    (/\ skew_res # <<>>
     /\ skew_res.weighted # NotRead
     /\ mse_station_skew(lp3.station_skew, lp3.n_peaks, lp3.power10).raised = "none") =>
        LET g_s == lp3.station_skew
            g_g == lp3.map_skew
            mse_s == mse_station_skew(lp3.station_skew, lp3.n_peaks, lp3.power10).value
            w == skew_res.weighted
        IN  /\ w.raised = "none"
            /\ RatLess(Whole(0), mse_s)
            /\ w.value = RatDiv(RatAdd(RatMul(g_s, mse_g), RatMul(g_g, mse_s)),
                                RatAdd(mse_s, mse_g))
            /\ RatLess(g_s, g_g) => (RatLess(g_s, w.value) /\ RatLess(w.value, g_g))
            /\ RatLess(g_g, g_s) => (RatLess(g_g, w.value) /\ RatLess(w.value, g_s))
            /\ (g_s = g_g) => (w.value = g_s)

\* C15 witness: station skew 0.2 with an MSE of 0.1 and map skew 0.0 were
\* weighted to 0.302 * 0.2 / 0.402, strictly between 0.0 and 0.2
C15_Witness ==
    /\ skew_res # <<>> /\ skew_res.weighted # NotRead
    /\ lp3.station_skew = Rat(2, 10)
    /\ lp3.map_skew = Whole(0)
    /\ lp3.power10 = Rat(1, 10)
    /\ skew_res.weighted.raised = "none"
    /\ skew_res.weighted.value = Rat(302, 2010)
    /\ RatLess(Whole(0), skew_res.weighted.value)
    /\ RatLess(skew_res.weighted.value, Rat(2, 10))

(* ------------------ l_moments and LP3Analysis.parameters --------------- *)
\* most log10 peaks in a sample
MaxSample == 4
\* largest log10 peak (the peaks are 1, 10, 100, ...)
MaxLogPeak == 2

\* math.comb(n, k) for n >= 0, k >= 0
RECURSIVE comb(_, _)
comb(n, k) ==
    IF k = 0 THEN 1
    ELSE IF n < k THEN 0
    ELSE comb(n - 1, k - 1) + comb(n - 1, k)

\* np.sort: ascending
RECURSIVE Insert(_, _)
Insert(x, sorted) ==
    IF sorted = <<>> THEN <<x>>
    ELSE IF x <= Head(sorted) THEN <<x>> \o sorted
    ELSE <<Head(sorted)>> \o Insert(x, Tail(sorted))

RECURSIVE np_sort(_)
np_sort(a) == IF a = <<>> THEN <<>> ELSE Insert(Head(a), np_sort(Tail(a)))

\* a[::-1]
Reversed(a) == [i \in 1..Len(a) |-> a[Len(a) + 1 - i]]

\* for j in range(n - r): running_sum.append(comb(n - (j + 1), r) * series[j] / comb(n - 1, r));
\* sum(running_sum)
RECURSIVE RunningSum(_, _, _, _)
RunningSum(sorted, n, r, j) ==
    IF j >= n - r THEN Whole(0)
    ELSE RatAdd(Rat(comb(n - (j + 1), r) * sorted[j + 1], comb(n - 1, r)),
                RunningSum(sorted, n, r, j + 1))

\* the body of l_moments on the series as ordered by its first line; an empty
\* series makes b = running_sum / n a division of 0 by 0
LMomentsOf(sorted) ==
    LET n == Len(sorted)
        b(r) == RatDiv(RunningSum(sorted, n, r, 0), Whole(n))
    IN  IF n = 0 THEN [raised |-> "ZeroDivisionError"]
        ELSE [raised |-> "none",
              l1 |-> b(0),
              l2 |-> RatSub(RatMul(Whole(2), b(1)), b(0)),
              l3 |-> RatAdd(RatSub(RatMul(Whole(6), b(2)), RatMul(Whole(6), b(1))), b(0))]

\* a faulty variant: the series is used in the order given
l_moments_unsorted(series) == LMomentsOf(series)

\* l_moments: series = np.sort(series)[::-1], then the moments
l_moments(series) == LMomentsOf(Reversed(np_sort(series)))

\* 0.7797, the constant of the pseudo standard deviation
PseudoStdev == Rat(7797, 10000)

\* a value that is not finite (numpy's nan or inf)
NonFinite == [n |-> 0, d |-> 0]

\* numpy's x / y: not finite for y = 0, with a warning and no exception
np_divide(x, y) == IF y.n = 0 THEN NonFinite ELSE RatDiv(x, y)

\* what pearson3.fit answers: (skew, loc, scale)
FitAnswers == {[skew |-> Rat(1, 2), mean |-> Whole(3), std |-> Rat(1, 4)]}

\* what the property weighted_skew gives: a value, or the error of mse_station_skew
WeightedAnswers == {[raised |-> "none", value |-> Rat(1, 10)], [raised |-> "UnboundLocalError"]}

EstMethods == {"MOM", "MLE", "LMOM"}

\* LP3Analysis.parameters; lp is self.log_peaks (ascending, __post_init__ sorts
\* the peaks), fit what pearson3.fit answers and weighted what weighted_skew gives
parameters(opts, lp) ==
    LET lm == l_moments(lp)
        estimated ==
            IF opts.est_method \in {"MOM", "MLE"}
            THEN [raised |-> "none", mean_log |-> opts.fit.mean, std_log |-> opts.fit.std,
                  skew_log |-> opts.fit.skew]
            ELSE IF lm.raised # "none" THEN [raised |-> lm.raised]
            ELSE [raised |-> "none", mean_log |-> lm.l1, std_log |-> lm.l2,
                  skew_log |-> np_divide(lm.l3, RatMul(lm.l2, PseudoStdev))]
    IN  IF estimated.raised # "none" THEN estimated
        ELSE IF opts.use_map_skew
        THEN IF opts.weighted.raised # "none" THEN [raised |-> opts.weighted.raised]
             ELSE [estimated EXCEPT !.skew_log = opts.weighted.value]
        ELSE estimated

InitLmom ==
    /\ EngineIdle
    /\ AppIdle
    /\ SkewIdle /\ MoodIdle /\ QuantIdle
    /\ log_peaks \in SeqsUpTo(0..MaxLogPeak, MaxSample)
    /\ lp3_opts \in [est_method : EstMethods, use_map_skew : BOOLEAN,
                     fit : FitAnswers, weighted : WeightedAnswers]
    /\ lmom_res = [l_moments |-> NotRead, parameters |-> NotRead]

\* l_moments(series), the series in any order
LMoments ==
    /\ lmom_res.l_moments = NotRead
    /\ lmom_res' = [lmom_res EXCEPT !.l_moments = l_moments(log_peaks)]
    /\ UNCHANGED <<log_peaks, lp3_opts>>
    /\ UNCHANGED <<engineVars, appVars, skewVars, moodVars, quantVars>>

\* the property parameters of an LP3Analysis built on the peaks
Parameters ==
    /\ lmom_res.parameters = NotRead
    /\ lmom_res' = [lmom_res EXCEPT !.parameters = parameters(lp3_opts, np_sort(log_peaks))]
    /\ UNCHANGED <<log_peaks, lp3_opts>>
    /\ UNCHANGED <<engineVars, appVars, skewVars, moodVars, quantVars>>

NextLmom == LMoments \/ Parameters

SpecLmom == InitLmom /\ [][NextLmom]_vars

(* --------------------------- claims on L-moments ----------------------- *)
\* x_(j): the j-th value (j from 0) of the sample in descending order
OrderStat(sample, j) ==
    CHOOSE v \in Range(sample) :
        /\ Cardinality({i \in 1..Len(sample) : sample[i] > v}) <= j
        /\ j < Cardinality({i \in 1..Len(sample) : sample[i] >= v})

\* n! / (k! (n-k)!) by the product formula
RECURSIVE Binomial(_, _)
Binomial(n, k) ==
    IF k < 0 \/ k > n THEN 0
    ELSE IF k = 0 THEN 1
    ELSE (Binomial(n, k - 1) * (n - k + 1)) \div k

\* b_r = (1/n) * sum over j of C(n-1-j, r) * x_(j) / C(n-1, r); the positions
\* j > n-1-r, where C(n-1-j, r) = 0, add nothing
RECURSIVE SumOver(_, _, _)
SumOver(J, sample, r) ==
    IF J = {} THEN Whole(0)
    ELSE LET j == CHOOSE x \in J : TRUE
         IN  RatAdd(Rat(Binomial(Len(sample) - 1 - j, r) * OrderStat(sample, j),
                        Binomial(Len(sample) - 1, r)),
                    SumOver(J \ {j}, sample, r))

PWM(sample, r) ==
    RatDiv(SumOver({j \in 0..(Len(sample) - 1) : Binomial(Len(sample) - 1 - j, r) # 0}, sample, r),
           Whole(Len(sample)))

\* the L-moments of the log10 peaks, as the formulas give them
L1 == PWM(log_peaks, 0)
L2 == RatSub(RatMul(Whole(2), PWM(log_peaks, 1)), PWM(log_peaks, 0))
L3 == RatAdd(RatSub(RatMul(Whole(6), PWM(log_peaks, 2)), RatMul(Whole(6), PWM(log_peaks, 1))),
             PWM(log_peaks, 0))

\* C16: with est_method "LMOM" and no regional weighting, the skew returned by
\* parameters is l3 / (l2 / 0.7797), (l1, l2, l3) being the L-moments of the
\* log10 peaks.
C16_LmomSkew ==
    (/\ lmom_res # <<>>
     /\ lmom_res.parameters # NotRead
     /\ lp3_opts.est_method = "LMOM" /\ ~lp3_opts.use_map_skew
     /\ Len(log_peaks) >= 2) =>
        /\ lmom_res.parameters.raised = "none"
        /\ (L2.n # 0) => lmom_res.parameters.skew_log = RatDiv(L3, RatDiv(L2, PseudoStdev))

\* C17: for every sample of n >= 2 values, in any order, l_moments returns
\* l1 = b0, l2 = 2*b1 - b0, l3 = 6*b2 - 6*b1 + b0 of the sample sorted in
\* descending order, so the result is the same for every reordering.
C17_LMomentsOrderFree ==
    (lmom_res # <<>> /\ lmom_res.l_moments # NotRead /\ Len(log_peaks) >= 2) =>
        lmom_res.l_moments = [raised |-> "none", l1 |-> L1, l2 |-> L2, l3 |-> L3]

\* C17 witness: the sample (0, 2, 1, 2), neither ascending nor descending,
\* gave l1 = 5/4, l2 = 7/12, l3 = -1/4
C17_Witness ==
    /\ log_peaks = <<0, 2, 1, 2>>
    /\ lmom_res.l_moments = [raised |-> "none", l1 |-> Rat(5, 4), l2 |-> Rat(7, 12), l3 |-> Rat(-1, 4)]

\* C18: l_moments on a sample of one value fails with an error and returns no
\* L-moment values.
C18_SingleValueRefused ==
    (lmom_res # <<>> /\ lmom_res.l_moments # NotRead /\ Len(log_peaks) = 1) =>
        lmom_res.l_moments.raised # "none"

(* ------------- MoodCPM and LepageCPM: the test statistics -------------- *)
\* most values in each of the two samples s1, s2
MaxSide == 3
\* largest value of scipy's mood and mannwhitneyu statistics drawn
MaxRawStat == 4

\* scipy.stats.mood refuses fewer than three observations
MoodRefuses(n0, n1) == n0 + n1 < 3

\* mood_null_mean
mood_null_mean(n0, n1) == Rat(n0 * (((n0 + n1) * (n0 + n1)) - 1), 12)

\* n0 * n1 * (N + 1) * ((N**2) - 4) / 180, the null variance of Mood's statistic
MoodNullVariance(n0, n1) ==
    LET N == n0 + n1 IN Rat(n0 * n1 * (N + 1) * ((N * N) - 4), 180)

\* mood_null_sd = (...) ** 2
mood_null_sd(n0, n1) == RatMul(MoodNullVariance(n0, n1), MoodNullVariance(n0, n1))

\* MoodCPM.test_statistic; mood is mood(s1, s2).statistic
MoodStatistic(n0, n1, mood) ==
    IF MoodRefuses(n0, n1) THEN [raised |-> "ValueError"]
    ELSE [raised |-> "none",
          null_mean |-> mood_null_mean(n0, n1),
          null_sd |-> mood_null_sd(n0, n1),
          stat |-> np_divide(RatAbs(RatSub(mood_null_mean(n0, n1), mood)), mood_null_sd(n0, n1))]

\* LepageCPM.test_statistic; mw is mannwhitneyu(s1, s2).statistic. The square
\* of mw_stat = |mw_null_mean - mw| / (n0*n1*(N+1)/12) ** 0.5 is computed exactly
LepageStatistic(n0, n1, mood, mw) ==
    LET m == MoodStatistic(n0, n1, mood)
        mw_null_mean == Rat(n0 * n1, 2)
        mw_null_var == Rat(n0 * n1 * (n0 + n1 + 1), 12)
        mw_diff == RatSub(mw_null_mean, mw)
        mw_stat_sq == RatDiv(RatMul(mw_diff, mw_diff), mw_null_var)
    IN  IF m.raised # "none" THEN m
        ELSE [m EXCEPT !.stat = RatAdd(RatMul(m.stat, m.stat), mw_stat_sq)]
                 @@ [mood_stat |-> m.stat, mw_stat_sq |-> mw_stat_sq]

InitMood ==
    /\ EngineIdle
    /\ AppIdle
    /\ SkewIdle /\ LmomIdle /\ QuantIdle
    /\ samples \in [n0 : 1..MaxSide, n1 : 1..MaxSide,
                    mood : {Whole(k) : k \in 0..MaxRawStat},
                    mw : {Whole(0), Whole(MaxRawStat)}]
    /\ mood_res = [mood |-> NotRead, lepage |-> NotRead]

\* MoodCPM().test_statistic(s1, s2)
MoodTestStatistic ==
    /\ mood_res.mood = NotRead
    /\ mood_res' = [mood_res EXCEPT !.mood = MoodStatistic(samples.n0, samples.n1, samples.mood)]
    /\ UNCHANGED samples
    /\ UNCHANGED <<engineVars, appVars, skewVars, lmomVars, quantVars>>

\* LepageCPM().test_statistic(s1, s2)
LepageTestStatistic ==
    /\ mood_res.lepage = NotRead
    /\ mood_res' = [mood_res EXCEPT
                       !.lepage = LepageStatistic(samples.n0, samples.n1, samples.mood, samples.mw)]
    /\ UNCHANGED samples
    /\ UNCHANGED <<engineVars, appVars, skewVars, lmomVars, quantVars>>

NextMood == MoodTestStatistic \/ LepageTestStatistic

SpecMood == InitMood /\ [][NextMood]_vars

(* ---------------------- claims on the Mood statistic ------------------- *)
\* r is a Mood statistic standardized as C19 says: |mood - null mean| divided
\* by a null standard deviation whose square is the null variance
StandardizedMood(r, stat) ==
    /\ r.raised = "none"
    /\ r.null_mean = Rat(samples.n0 * (((samples.n0 + samples.n1) * (samples.n0 + samples.n1)) - 1), 12)
    /\ RatLeq(Whole(0), r.null_sd)
    /\ RatMul(r.null_sd, r.null_sd) = MoodNullVariance(samples.n0, samples.n1)
    /\ stat = RatDiv(RatAbs(RatSub(samples.mood, r.null_mean)), r.null_sd)

\* C19: for n0, n1 >= 1 (and N = n0 + n1 >= 3 observations, which Mood's test
\* needs) the statistic of MoodCPM.test_statistic, and the Mood component of
\* LepageCPM.test_statistic, is |mood - null mean| / null sd, with null mean
\* n0*(N^2 - 1)/12 and null sd the square root of n0*n1*(N + 1)*(N^2 - 4)/180.
C19_MoodStandardized ==
    (mood_res # <<>> /\ samples.n0 + samples.n1 >= 3) =>
        /\ (mood_res.mood # NotRead) => StandardizedMood(mood_res.mood, mood_res.mood.stat)
        /\ (mood_res.lepage # NotRead) => StandardizedMood(mood_res.lepage, mood_res.lepage.mood_stat)

(* -------------------- LP3Analysis.ffa_quantiles ------------------------ *)
\* most return periods in the list
MaxPeriods == 2

\* the return periods drawn, in years
PeriodValues == {1, 2, 10, 100}

\* the largest whole power of ten an int64 holds: 10^18 < 2^63 <= 10^19
MaxExactLog10 == 18

\* log10 discharges the inverse CDF gives: below 1 cfs, 1 cfs, 10 cfs, the
\* largest power of ten an int64 holds, and one beyond it
LogDischarges == {-1, 0, 1, MaxExactLog10, MaxExactLog10 + 1}

\* 1 - aeps for the return periods drawn
Probabilities == {RatSub(Whole(1), Rat(1, T)) : T \in PeriodValues}

\* self.distribution.ppf for std_log > 0: a non-decreasing function of the
\* probability
Distributions ==
    {f \in [Probabilities -> LogDischarges] :
        \A p, q \in Probabilities : RatLeq(p, q) => f[p] <= f[q]}

\* The int64 values the conversion can give, numbered in increasing order:
\* INT64_MIN is -1, 0 is 0, 10^x is x + 1 and INT64_MAX is MaxExactLog10 + 2
Int64Min == -1
Int64Max == MaxExactLog10 + 2

\* what a float-to-int64 conversion gives out of range: undefined in C; INT64_MIN
\* on x86-64 builds, INT64_MAX where the conversion saturates
OutOfRangeCasts == {Int64Min, Int64Max}

\* np.power(10, x).astype(int): truncation towards zero; cast is the build's
\* result for a value that an int64 cannot hold
PowerAsInt(x, cast) ==
    IF x < 0 THEN 0
    ELSE IF x <= MaxExactLog10 THEN x + 1
    ELSE cast

\* ffa_quantiles: (aeps, qs)
ffa_quantiles(return_periods, ppf, cast) ==
    LET aeps == [i \in 1..Len(return_periods) |-> Rat(1, return_periods[i])]
    IN  [raised |-> "none",
         aeps |-> aeps,
         qs |-> [i \in 1..Len(return_periods) |->
                    PowerAsInt(ppf[RatSub(Whole(1), aeps[i])], cast)]]

InitQuant ==
    /\ EngineIdle
    /\ AppIdle
    /\ SkewIdle /\ LmomIdle /\ MoodIdle
    /\ ffa \in [return_periods : SeqsUpTo(PeriodValues, MaxPeriods), ppf : Distributions]
    /\ ffa_res = NotRead

\* the property ffa_quantiles is read
FfaQuantiles ==
    /\ ffa_res = NotRead
    /\ \E cast \in OutOfRangeCasts :
        ffa_res' = ffa_quantiles(ffa.return_periods, ffa.ppf, cast)
    /\ UNCHANGED ffa
    /\ UNCHANGED <<engineVars, appVars, skewVars, lmomVars, moodVars>>

NextQuant == FfaQuantiles

SpecQuant == InitQuant /\ [][NextQuant]_vars

(* ------------------------- claims on the quantiles --------------------- *)
\* C20: for every fitted distribution with std_log > 0 and every list of
\* return periods, the discharges of ffa_quantiles are monotone non-decreasing
\* in the return period: T1 <= T2 implies Q(T1) <= Q(T2).
C20_QuantilesMonotone ==
    (ffa_res # <<>> /\ ffa_res # NotRead) =>
        \A i, j \in 1..Len(ffa.return_periods) :
            (ffa.return_periods[i] <= ffa.return_periods[j]) => (ffa_res.qs[i] <= ffa_res.qs[j])

(* ---------------- ChangePointAnalysis.get_max_pvalue ------------------- *)
\* most rows (peaks) of the p-value matrix
MaxRows == 3

\* the p-values drawn for a cell: NaN, 0.05, 0.005, 0.001 (in units of 1/1000)
CellValues == {NaN, 50, 5, 1}

\* the value 1 of fillna(1), in units of 1/1000
FillValue == 1000

\* pval_df.fillna(1)
fillna(df, value) ==
    [c \in 1..Len(df) |->
        [column |-> df[c].column,
         values |-> [i \in 1..Len(df[c].values) |->
                        IF df[c].values[i] = NaN THEN value ELSE df[c].values[i]]]]

NumRows(df) == Len(df[1].values)

\* .max(axis=1): the largest value of every row
max_axis1(df) == [i \in 1..NumRows(df) |-> SetMax({df[c].values[i] : c \in 1..Len(df)})]

\* ((all_tests != all_tests.shift(1)) * 1).cumsum(): the first row differs
\* from the NaN shifted in, every later row adds 1 when its value differs from
\* the row before
RECURSIVE RunIds(_, _)
RunIds(pval, i) ==
    IF i = 0 THEN <<>>
    ELSE IF i = 1 THEN <<1>>
    ELSE LET before == RunIds(pval, i - 1)
         IN  Append(before, before[i - 1] + (IF pval[i] # pval[i - 1] THEN 1 ELSE 0))

\* a faulty variant of the aggregation: the number of rows, not of runs
nrows(pval, run, v) == Cardinality({j \in 1..Len(pval) : pval[j] = v})

\* groupby("pval").agg({"run": pd.Series.nunique}): per p-value, the number of
\* distinct run ids
nunique(pval, run, v) == Cardinality({run[i] : i \in {j \in 1..Len(pval) : pval[j] = v}})

\* the loop over the groups in sort_index() order: the first with run > 0
RECURSIVE FirstGroup(_, _, _)
FirstGroup(groups, pval, run) ==
    IF groups = {} THEN [raised |-> "UnboundLocalError"]
    ELSE LET ind == SetMin(groups)
             r == nunique(pval, run, ind)
         IN  IF r > 0 THEN [raised |-> "none", min_p |-> ind, count |-> r]
             ELSE FirstGroup(groups \ {ind}, pval, run)

\* get_max_pvalue: min_p and count are bound inside the loop only
get_max_pvalue(df) ==
    LET pval == max_axis1(fillna(df, FillValue))
        run == RunIds(pval, Len(pval))
    IN  FirstGroup(Range(pval), pval, run)

\* self.pval_df: one column per test of METRICS, one row per peak; the tests
\* at odd places of METRICS return one column of p-values and the others another
InitMaxP ==
    /\ EngineIdle
    /\ NumIdle
    /\ RskewIdle /\ FrameIdle /\ SrvIdle /\ NavIdle /\ YearIdle /\ MissIdle
    /\ \E n \in 0..MaxRows :
        \E a, b \in [1..n -> CellValues] :
            cpa_pval_df = [c \in 1..Len(METRICS) |->
                              [column |-> METRICS[c], values |-> IF c % 2 = 1 THEN a ELSE b]]
    /\ maxp_res = NotRead

\* results_text: min_p, p_count = self.get_max_pvalue()
GetMaxPvalue ==
    /\ maxp_res = NotRead
    /\ maxp_res' = get_max_pvalue(cpa_pval_df)
    /\ UNCHANGED cpa_pval_df
    /\ UNCHANGED <<engineVars, numVars, rskewVars, frameVars, srvVars, navVars, yearVars, missVars>>

NextMaxP == GetMaxPvalue

SpecMaxP == InitMaxP /\ [][NextMaxP]_vars

(* ------------------------ claims on get_max_pvalue --------------------- *)
\* the largest p-value of the tests at row i, NaN counted as 1
RowMax(i) ==
    SetMax({IF cpa_pval_df[c].values[i] = NaN THEN FillValue ELSE cpa_pval_df[c].values[i] :
               c \in 1..Len(cpa_pval_df)})

MinOfRowMax == SetMin({RowMax(i) : i \in 1..NumRows(cpa_pval_df)})

\* the rows that start a maximal run of consecutive rows whose maximum is min_p
RunStarts ==
    {i \in 1..NumRows(cpa_pval_df) :
        RowMax(i) = MinOfRowMax /\ (i = 1 \/ RowMax(i - 1) # MinOfRowMax)}

\* C25: for every p-value matrix with at least one row, get_max_pvalue returns
\* min_p, the minimum over the rows of the maximum over the tests of the
\* p-value (NaN counted as 1), and count, the number of maximal runs of
\* consecutive rows whose maximum equals min_p.
C25_MinOfMaxAndRuns ==
    (maxp_res # <<>> /\ maxp_res # NotRead /\ NumRows(cpa_pval_df) >= 1) =>
        /\ maxp_res.raised = "none"
        /\ maxp_res.min_p = MinOfRowMax
        /\ maxp_res.count = Cardinality(RunStarts)

\* C25 witness: three rows whose maxima are 0.005, 1 (a NaN), 0.005: the
\* minimum 0.005 is reached in two separate runs, by tests that disagree
C25_Witness ==
    /\ maxp_res # <<>> /\ maxp_res # NotRead
    /\ NumRows(cpa_pval_df) = 3
    /\ cpa_pval_df[1].values = <<5, NaN, 1>>
    /\ cpa_pval_df[2].values = <<1, 1, 5>>
    /\ maxp_res.raised = "none"
    /\ maxp_res.min_p = 5
    /\ maxp_res.count = 2

(* ---------------------- group_consecutive_years ------------------------ *)
\* longest list of years handed to group_consecutive_years
MaxYears == 3
\* number of different years drawn
NumYears == 4
\* the first year drawn
FirstYear == 2001

YearValues == FirstYear..(FirstYear + NumYears - 1)

\* sorted(years): np_sort's insertion into an ascending list keeps duplicates
sorted(list) == np_sort(list)

\* itertools.groupby(enumerate(sorted_years), lambda ix: ix[0] - ix[1]):
\* consecutive items with equal keys form one group; g = [x[1] for x in group]
RECURSIVE GroupBy(_, _, _, _)
GroupBy(sorted_years, i, groups, g) ==
    IF i > Len(sorted_years) THEN (IF Len(g) = 0 THEN groups ELSE Append(groups, g))
    ELSE LET key(j) == (j - 1) - sorted_years[j]
         IN  IF Len(g) > 0 /\ key(i) # key(i - 1)
             THEN GroupBy(sorted_years, i + 1, Append(groups, g), <<sorted_years[i]>>)
             ELSE GroupBy(sorted_years, i + 1, groups, Append(g, sorted_years[i]))

\* f"{g[0]}" if len(g) == 1 else f"{g[0]}-{g[-1]}"
FormatRange(g) ==
    IF Len(g) = 1 THEN ToString(g[1]) ELSE ToString(g[1]) \o "-" \o ToString(g[Len(g)])

group_consecutive_years(list) ==
    LET groups == GroupBy(sorted(list), 1, <<>>, <<>>)
    IN  [i \in 1..Len(groups) |-> FormatRange(groups[i])]

InitYears ==
    /\ EngineIdle
    /\ NumIdle
    /\ RskewIdle /\ FrameIdle /\ SrvIdle /\ MaxpIdle /\ NavIdle /\ MissIdle
    /\ years \in SeqsUpTo(YearValues, MaxYears)
    /\ year_groups = NotRead

\* get_regulation_summary: grouped_year_ranges = group_consecutive_years(...)
GroupConsecutiveYears ==
    /\ year_groups = NotRead
    /\ year_groups' = [raised |-> "none", value |-> group_consecutive_years(years)]
    /\ UNCHANGED years
    /\ UNCHANGED <<engineVars, numVars, rskewVars, frameVars, srvVars, maxpVars, navVars, missVars>>

NextYears == GroupConsecutiveYears

SpecYears == InitYears /\ [][NextYears]_vars

(* -------------------- claims on group_consecutive_years ---------------- *)
YearSet == Range(years)

\* the first years of the maximal runs of consecutive years of the input
RunFirsts == {y \in YearSet : (y - 1) \notin YearSet}

\* the last year of the maximal run that starts at y
RunLast(y) == SetMin({z \in YearSet : z >= y /\ (z + 1) \notin YearSet})

\* the maximal runs, ascending, each formatted "y" or "first-last"
MaximalRuns ==
    LET firsts == SortedSeq(RunFirsts)
    IN  [i \in 1..Len(firsts) |->
            IF RunLast(firsts[i]) = firsts[i] THEN ToString(firsts[i])
            ELSE ToString(firsts[i]) \o "-" \o ToString(RunLast(firsts[i]))]

C29_MaximalRunsOfDistinctYears ==
    (year_groups # <<>> /\ year_groups # NotRead /\ Cardinality(YearSet) = Len(years)) =>
        year_groups.value = MaximalRuns

(* -------------------------- check_missing_dates ------------------------ *)
\* most records (peaks) of the frame handed to check_missing_dates
MaxDates == 3
\* number of calendar years the peak dates are drawn from
NumCalYears == 3

\* the peak dates drawn: a calendar year and a month on either side of the
\* September / October boundary of the water year
CalYears == FirstYear..(FirstYear + NumCalYears - 1)
Months == {1, 9, 10, 12}
PeakDates == [year : CalYears, month : Months]

\* the frequencies asked for: the annual peak series' and one that is not known
\* (the 'daily' and 'monthly' branches apply pd.date_range and are not drawn)
Frequencies == {"water_year", "annual"}

\* a faulty variant: the calendar year for every month
water_year_calendar(d) == d.year

\* df.index.year.where(df.index.month < 10, df.index.year + 1)
water_year(d) == IF d.month < 10 THEN d.year ELSE d.year + 1

\* check_missing_dates; min() of an empty column is NaN, which range() refuses
check_missing_dates(df, freq) ==
    IF freq = "water_year"
    THEN LET wy == [i \in 1..Len(df) |-> water_year(df[i])]
         IN  IF Len(df) = 0 THEN [raised |-> "TypeError", rows |-> df]
             ELSE LET full_water_years == SetMin(Range(wy))..SetMax(Range(wy))
                      existing_water_years == Range(wy)
                  IN  [raised |-> "none", rows |-> df,
                       value |-> SortedSeq(full_water_years \ existing_water_years)]
    ELSE [raised |-> "ValueError", rows |-> df]

InitMissing ==
    /\ EngineIdle
    /\ NumIdle
    /\ RskewIdle /\ FrameIdle /\ SrvIdle /\ MaxpIdle /\ NavIdle /\ YearIdle
    /\ \E dates \in SeqsUpTo(PeakDates, MaxDates), freq \in Frequencies :
        peaks_df = [dates |-> dates, freq |-> freq]
    /\ missing_res = NotRead

\* Gage.missing_dates_ams: check_missing_dates(self.ams, "water_year")
CheckMissingDates ==
    /\ missing_res = NotRead
    /\ missing_res' = check_missing_dates(peaks_df.dates, peaks_df.freq)
    /\ UNCHANGED peaks_df
    /\ UNCHANGED <<engineVars, numVars, rskewVars, frameVars, srvVars, maxpVars, navVars, yearVars>>

NextMissing == CheckMissingDates

SpecMissing == InitMissing /\ [][NextMissing]_vars

(* ---------------------- claims on check_missing_dates ------------------ *)
\* the water year of a date: its calendar year for January to September, the
\* calendar year plus one for October to December
WaterYearOf(d) == IF d.month \in 1..9 THEN d.year ELSE d.year + 1

\* every water year a drawn date can fall in, and one more on either side
WaterYears == (FirstYear - 1)..(FirstYear + NumCalYears + 1)

RecordedWaterYears == {WaterYearOf(peaks_df.dates[i]) : i \in 1..Len(peaks_df.dates)}

\* C30: for every non-empty annual peak series check_missing_dates(df,
\* "water_year") returns, ascending and without repeats, exactly the water
\* years strictly between the smallest and the largest water year of the series
\* that have no record; no record is added for a missing year; a frequency
\* other than 'daily', 'monthly' or 'water_year' raises ValueError.
C30_MissingWaterYears ==
    (missing_res # <<>> /\ missing_res # NotRead) =>
        /\ (peaks_df.freq = "water_year" /\ Len(peaks_df.dates) >= 1) =>
             LET v == missing_res.value
             IN  /\ missing_res.raised = "none"
                 /\ \A i \in 1..(Len(v) - 1) : v[i] < v[i + 1]
                 /\ Range(v) = {y \in WaterYears : /\ SetMin(RecordedWaterYears) < y
                                                   /\ y < SetMax(RecordedWaterYears)
                                                   /\ y \notin RecordedWaterYears}
                 /\ missing_res.rows = peaks_df.dates
        /\ (peaks_df.freq \notin {"daily", "monthly", "water_year"}) =>
             missing_res.raised = "ValueError"

\* C30 witness: peaks in September 2001, October 2001 and December 2003, out
\* of order: water years 2001, 2002 and 2004 are recorded and 2003 is missing
C30_Witness ==
    /\ missing_res # <<>> /\ missing_res # NotRead
    /\ peaks_df.freq = "water_year"
    /\ peaks_df.dates = <<[year |-> 2003, month |-> 12], [year |-> 2001, month |-> 9],
                          [year |-> 2001, month |-> 10]>>
    /\ missing_res.raised = "none"
    /\ missing_res.value = <<2003>>

\* C30 witness of the refusal: an unknown frequency raised ValueError
C30_WitnessRefused ==
    /\ missing_res # <<>> /\ missing_res # NotRead
    /\ peaks_df.freq = "annual"
    /\ missing_res.raised = "ValueError"

(* --------------------------- Gage.regional_skew ------------------------ *)
\* the sentinel of the skew map (California)
Sentinel == 9999
\* the divisor of the basin elevation in the NL-ELEV equation
ElevScale == 6500

\* the raster's no-data value, where it defines one
NoDataValue == Whole(-9999)
NoDataVals == {{NoDataValue}, {}}

\* what raster.sample(...)[0][0] gives: a cell value (a skew in tenths, the
\* sentinel or the no-data value), or a KeyError / IndexError
RasterLookups ==
    {[kind |-> "value", val |-> v] : v \in StationSkews \cup {Whole(Sentinel), NoDataValue}}
        \cup {[kind |-> "KeyError"], [kind |-> "IndexError"]}

\* mean_basin_elevation: the ELEV characteristic, or none on record (row[0]
\* of an empty list)
Elevations ==
    {[kind |-> "value", val |-> e] : e \in {0, 3250, ElevScale}} \cup {[kind |-> "IndexError"]}

None == [kind |-> "None"]

\* (0 - 0.62) + 1.3 * (1 - np.exp(0 - (elev / 6500) ** 2)); exp is kept as a
\* function symbol applied to an exact argument
NLElev(elev) ==
    LET q == Rat(elev, ElevScale)
    IN  [kind |-> "a + b * (1 - exp(-x))",
         a |-> RatSub(Whole(0), Rat(62, 100)), b |-> Rat(13, 10), x |-> RatMul(q, q)]

\* a faulty variant: the sentinel is returned like any other cell value
regional_skew_raw(g) ==
    IF g.lookup.kind # "value" \/ g.lookup.val \in g.nodatavals
    THEN [raised |-> "none", value |-> None]
    ELSE [raised |-> "none", value |-> [kind |-> "float", val |-> g.lookup.val]]

\* Gage.regional_skew
regional_skew(g) ==
    IF g.lookup.kind \in {"KeyError", "IndexError"} THEN [raised |-> "none", value |-> None]
    ELSE IF g.lookup.val \in g.nodatavals THEN [raised |-> "none", value |-> None]
    ELSE IF g.lookup.val = Whole(Sentinel)
         THEN IF g.elevation.kind = "IndexError" THEN [raised |-> "IndexError"]
              ELSE [raised |-> "none", value |-> NLElev(g.elevation.val)]
    ELSE [raised |-> "none", value |-> [kind |-> "float", val |-> g.lookup.val]]

\* Gage.has_regional_skew: self.regional_skew is not None
has_regional_skew(g) ==
    LET r == regional_skew(g)
    IN  IF r.raised # "none" THEN r ELSE [raised |-> "none", value |-> r.value # None]

InitRskew ==
    /\ EngineIdle
    /\ NumIdle
    /\ FrameIdle /\ SrvIdle /\ MaxpIdle /\ NavIdle /\ YearIdle /\ MissIdle
    /\ \E l \in RasterLookups, nd \in NoDataVals, e \in Elevations :
        gage = [lookup |-> l, nodatavals |-> nd, elevation |-> e]
    /\ rskew_res = [skew |-> NotRead, has |-> NotRead]

\* LP3Analysis.map_skew: gage.regional_skew
RegionalSkew ==
    /\ rskew_res.skew = NotRead
    /\ rskew_res' = [rskew_res EXCEPT !.skew = regional_skew(gage)]
    /\ UNCHANGED gage
    /\ UNCHANGED <<engineVars, numVars, frameVars, srvVars, maxpVars, navVars, yearVars, missVars>>

\* a reader of gage.has_regional_skew
HasRegionalSkew ==
    /\ rskew_res.has = NotRead
    /\ rskew_res' = [rskew_res EXCEPT !.has = has_regional_skew(gage)]
    /\ UNCHANGED gage
    /\ UNCHANGED <<engineVars, numVars, frameVars, srvVars, maxpVars, navVars, yearVars, missVars>>

NextRskew == RegionalSkew \/ HasRegionalSkew

SpecRskew == InitRskew /\ [][NextRskew]_vars

(* ------------------------ claims on regional_skew ---------------------- *)
BothRead == rskew_res # <<>> /\ rskew_res.skew # NotRead /\ rskew_res.has # NotRead

C21_WitnessNoData ==
    /\ BothRead
    /\ gage.lookup = [kind |-> "value", val |-> NoDataValue]
    /\ gage.nodatavals = {NoDataValue}
    /\ rskew_res.skew.raised = "none"
    /\ rskew_res.skew.value = None
    /\ rskew_res.has.value = FALSE

(* ------------- the caller's series and the analysis operations --------- *)
\* longest peak series handed to the analysis operations
MaxFrame == 3

\* peak values whose log10 is exact
FramePeaks == {1, 10, 100}

\* np.log10 on these values
FrameLog10(v) == IF v = 1 THEN 0 ELSE IF v = 10 THEN 1 ELSE 2

\* arrays are objects of a heap, named by their place in it; the caller's
\* series is object 1, and an operation gets a reference to it
CallerRef == 1

\* a faulty variant: ndarray.sort(), which sorts the array it is given
SortedInPlace(h, ref) == [heap |-> [h EXCEPT ![ref] = np_sort(h[ref])], ref |-> ref]

\* np.sort(a): a sorted copy, a new object
SortedCopy(h, ref) == [heap |-> Append(h, np_sort(h[ref])), ref |-> Len(h) + 1]

\* a[::-1] of a fresh sorted copy: a reversed view of the copy
ReversedOf(r) == [heap |-> [r.heap EXCEPT ![r.ref] = Reversed(r.heap[r.ref])], ref |-> r.ref]

\* np.log10(a): a new array
Log10Copy(h, ref) ==
    [heap |-> Append(h, [i \in 1..Len(h[ref]) |-> FrameLog10(h[ref][i])]), ref |-> Len(h) + 1]

\* l_moments(series): series = np.sort(series)[::-1] rebinds the local name;
\* the sums read the copy
LMomentsHeap(h, ref) == ReversedOf(SortedCopy(h, ref)).heap

\* LP3Analysis.parameters with est_method "LMOM": l_moments(self.log_peaks)
ParametersHeap(h, peaks) ==
    LET logged == Log10Copy(h, peaks)
    IN  LMomentsHeap(logged.heap, logged.ref)

InitFrame ==
    /\ EngineIdle
    /\ NumIdle
    /\ RskewIdle /\ SrvIdle /\ MaxpIdle /\ NavIdle /\ YearIdle /\ MissIdle
    /\ \E series \in SeqsUpTo(FramePeaks, MaxFrame) :
        /\ heap = <<series>>
        /\ frame_ops = [input |-> series, peaks |-> 0, ops |-> {}, sent |-> <<>>]

Did(op) == frame_ops' = [frame_ops EXCEPT !.ops = @ \cup {op}]

FrameRest == <<engineVars, numVars, rskewVars, srvVars, maxpVars, navVars, yearVars, missVars>>

\* LP3Analysis(gage_id, peaks): __post_init__ rebinds self.peaks to np.sort(self.peaks)
PostInit ==
    /\ frame_ops.peaks = 0
    /\ LET r == SortedCopy(heap, CallerRef)
       IN  /\ heap' = r.heap
           /\ frame_ops' = [frame_ops EXCEPT !.peaks = r.ref, !.ops = @ \cup {"LP3Analysis"}]
    /\ UNCHANGED FrameRest

\* reading lp3.parameters
ReadParameters ==
    /\ frame_ops.peaks # 0
    /\ "parameters" \notin frame_ops.ops
    /\ heap' = ParametersHeap(heap, frame_ops.peaks)
    /\ Did("parameters")
    /\ UNCHANGED FrameRest

\* reading lp3.ffa_quantiles, which reads self.distribution and so self.parameters
ReadQuantiles ==
    /\ frame_ops.peaks # 0
    /\ "ffa_quantiles" \notin frame_ops.ops
    /\ heap' = ParametersHeap(heap, frame_ops.peaks)
    /\ Did("ffa_quantiles")
    /\ UNCHANGED FrameRest

\* l_moments(series) on the caller's series
CallLMoments ==
    /\ "l_moments" \notin frame_ops.ops
    /\ heap' = LMomentsHeap(heap, CallerRef)
    /\ Did("l_moments")
    /\ UNCHANGED FrameRest

\* get_pvalues(data): ts = data["peak_va"].values is the caller's array, sent
\* to the collaborator once per test; the matrix is built on data[[]].copy()
CallGetPvalues ==
    /\ "get_pvalues" \notin frame_ops.ops
    /\ frame_ops' = [frame_ops EXCEPT !.ops = @ \cup {"get_pvalues"}, !.sent = heap[CallerRef]]
    /\ UNCHANGED heap
    /\ UNCHANGED FrameRest

\* get_changepoints(data, arl0, burn_in): the same array, sent to cpm_process_stream
CallGetChangepoints ==
    /\ "get_changepoints" \notin frame_ops.ops
    /\ frame_ops' = [frame_ops EXCEPT !.ops = @ \cup {"get_changepoints"}, !.sent = heap[CallerRef]]
    /\ UNCHANGED heap
    /\ UNCHANGED FrameRest

NextFrame ==
    \/ PostInit
    \/ ReadParameters
    \/ ReadQuantiles
    \/ CallLMoments
    \/ CallGetPvalues
    \/ CallGetChangepoints

SpecFrame == InitFrame /\ [][NextFrame]_vars

(* ----------------------- claims on the caller's series ----------------- *)
\* C22: no analysis operation changes the caller's series: constructing an
\* LP3Analysis, reading its parameters or quantiles, calling l_moments,
\* get_pvalues or get_changepoints leave the values and the order of the input
\* sequence unchanged; sorting and the log transform are applied to copies.
C22_CallerSeriesUnchanged ==
    (frame_ops # <<>>) =>
        /\ heap[CallerRef] = frame_ops.input
        /\ frame_ops.peaks # CallerRef

\* C22 witness: after all six operations on the unsorted series 100, 1, 10 the
\* caller still holds 100, 1, 10 and the LP3Analysis holds the sorted copy
C22_Witness ==
    /\ frame_ops # <<>>
    /\ frame_ops.ops = {"LP3Analysis", "parameters", "ffa_quantiles", "l_moments",
                        "get_pvalues", "get_changepoints"}
    /\ frame_ops.input = <<100, 1, 10>>
    /\ heap[CallerRef] = <<100, 1, 10>>
    /\ heap[frame_ops.peaks] = <<1, 10, 100>>
    /\ frame_ops.sent = <<100, 1, 10>>

(* ------------------------------ start_server --------------------------- *)
\* number of concurrent callers of start_server (sessions, cpm_* requests)
NumCallers == 2
\* max_iter of the polling loop
max_iter == 600
\* the period of the "waiting for server to start" message, in iterations
PrintEvery == 10

Callers == 1..NumCallers

\* server_running(port): TRUE when a server answers the ping with status 200
server_running(srv) == srv.up

InitServer ==
    /\ EngineIdle
    /\ NumIdle
    /\ RskewIdle /\ FrameIdle /\ MaxpIdle /\ NavIdle /\ YearIdle /\ MissIdle
    \* a server may already answer on the port; no caller has spawned one
    /\ \E up \in BOOLEAN : rserver = [up |-> up, spawned |-> 0]
    /\ callers = [c \in Callers |-> [pc |-> "idle", iter |-> 0]]

SrvRest == <<engineVars, numVars, rskewVars, frameVars, maxpVars, navVars, yearVars, missVars>>

At(c, pc) == callers[c].pc = pc
Goto(c, pc) == callers' = [callers EXCEPT ![c].pc = pc]

\* init_session_state, cpm_process_stream, cpm_detect_change_point_batch,
\* get_batch_threshold: start_server()
Call(c) ==
    /\ At(c, "idle")
    /\ Goto(c, "called")
    /\ UNCHANGED rserver
    /\ UNCHANGED SrvRest

\* if server_running(R_SERVER_PORT): return
FirstPing(c) ==
    /\ At(c, "called")
    /\ IF server_running(rserver) THEN Goto(c, "returned") ELSE Goto(c, "spawn")
    /\ UNCHANGED rserver
    /\ UNCHANGED SrvRest

\* process = subprocess.Popen(["Rscript", ...]); atexit.register(...); _iter = 0
Spawn(c) ==
    /\ At(c, "spawn")
    /\ rserver' = [rserver EXCEPT !.spawned = @ + 1]
    /\ callers' = [callers EXCEPT ![c] = [pc |-> "loop", iter |-> 0]]
    /\ UNCHANGED SrvRest

\* while _iter < max_iter: ... else: raise RuntimeError("Server failed to start after 60 seconds")
LoopTest(c) ==
    /\ At(c, "loop")
    /\ IF callers[c].iter < max_iter THEN Goto(c, "poll") ELSE Goto(c, "raised")
    /\ UNCHANGED rserver
    /\ UNCHANGED SrvRest

\* if server_running(R_SERVER_PORT): break, then print("Server started")
Poll(c) ==
    /\ At(c, "poll")
    /\ IF server_running(rserver) THEN Goto(c, "returned") ELSE Goto(c, "sleep")
    /\ UNCHANGED rserver
    /\ UNCHANGED SrvRest

\* time.sleep(0.1); if _iter % 10 == 0: print(...); _iter += 1
SleepAndCount(c) ==
    /\ At(c, "sleep")
    /\ callers' = [callers EXCEPT ![c] =
                      [pc |-> "loop",
                       iter |-> IF callers[c].iter % PrintEvery = 0
                                THEN callers[c].iter + 1 ELSE callers[c].iter]]
    /\ UNCHANGED rserver
    /\ UNCHANGED SrvRest

\* the R process started by Rscript begins to answer the ping; it stays up
ServerComesUp ==
    /\ rserver.spawned > 0
    /\ ~rserver.up
    /\ rserver' = [rserver EXCEPT !.up = TRUE]
    /\ UNCHANGED callers
    /\ UNCHANGED SrvRest

CallerStep(c) ==
    \/ Call(c)
    \/ FirstPing(c)
    \/ Spawn(c)
    \/ LoopTest(c)
    \/ Poll(c)
    \/ SleepAndCount(c)

NextServer == (\E c \in Callers : CallerStep(c)) \/ ServerComesUp

SpecServer == InitServer /\ [][NextServer]_vars

\* every caller that can take a step eventually takes one (a thread of the
\* interpreter is scheduled, a sleep and a refused ping return); nothing says
\* that the R process ever answers
SpecServerFair == SpecServer /\ \A c \in Callers : WF_vars(CallerStep(c))

(* ------------------------- claims on start_server ---------------------- *)
\* C23: start_server always terminates: it returns if the server answers a
\* ping, and if the server never answers the polling loop gives up and raises
\* RuntimeError; it never polls forever.
C23_StartServerTerminates ==
    \A c \in Callers : (callers[c].pc = "called") ~> (callers[c].pc \in {"returned", "raised"})

\* C28: across any interleaving of start_server calls no two calls both spawn
\* a process: at most one R server process is ever started.
C28_AtMostOneSpawn ==
    (rserver # <<>>) => rserver.spawned <= 1

\* a call spawns only after its own ping found no server answering
C28_SpawnOnlyAfterFailedPing ==
    [][\A c \in Callers : (rserver'.spawned > rserver.spawned /\ callers'[c] # callers[c]) =>
          callers[c].pc = "spawn"]_vars

(* ------------------------- the app's navigation ------------------------ *)
DEFAULT_GAGE == "01151500"

\* the gages NWIS has a site record for, and a number it has none for
KnownGages == {DEFAULT_GAGE, "12105900", "01646500", "09380000"}
UnknownGage == "00000000"

\* what a gage text input can hold
TextInputs == KnownGages \cup {UnknownGage, ""}

\* st.session_state before the first run of the script
NewSession ==
    [session_id |-> FALSE, gage_id |-> "None", site_data |-> "absent",
     gage_input |-> "", page |-> "none", raised |-> "none"]

\* init_session_state
init_session_state(s) == [s EXCEPT !.session_id = TRUE, !.gage_id = "None"]

\* load_site_data: the site record of a known gage (named by its number),
\* ValueError for any other
load_site_data(g) ==
    IF g \in KnownGages THEN [raised |-> "none", value |-> g] ELSE [raised |-> "ValueError"]

\* summary(): the sidebar's text input is written to gage_id, then the page
\* reads session_state["site_data"]; a missing key raises KeyError, which the
\* except ValueError clause does not catch
summary(s, text) ==
    LET edited == [s EXCEPT !.gage_id = text, !.page = "summary"]
    IN  IF text # "" /\ edited.site_data = "absent"
        THEN [edited EXCEPT !.raised = "KeyError"]
        ELSE [edited EXCEPT !.raised = "none"]

\* changepoint(): make_sidebar writes the text input to gage_id
changepoint_page(s, text) == [s EXCEPT !.gage_id = text, !.page = "changepoint", !.raised = "none"]

\* homepage(): Submit with a non-empty text or Use Demo Data set gage_id;
\* with a gage_id the site record is loaded (ValueError is reported and
\* swallowed) and st.rerun() runs navigator again, which now shows the
\* default page of [summary_pg, changepoint_pg]
homepage(s, text, submit, demo) ==
    LET picked == IF demo THEN DEFAULT_GAGE ELSE IF submit /\ text # "" THEN text ELSE s.gage_id
        typed == [s EXCEPT !.gage_input = text, !.gage_id = picked, !.page = "home", !.raised = "none"]
        loaded == load_site_data(picked)
    IN  IF picked = "None" THEN typed
        ELSE summary(IF loaded.raised = "none" THEN [typed EXCEPT !.site_data = loaded.value]
                     ELSE typed,
                     picked)

InitNav ==
    /\ EngineIdle
    /\ NumIdle
    /\ RskewIdle /\ FrameIdle /\ SrvIdle /\ MaxpIdle /\ YearIdle /\ MissIdle
    /\ nav = NewSession

NavRest == <<engineVars, numVars, rskewVars, frameVars, srvVars, maxpVars, yearVars, missVars>>

\* a run of navigator() while gage_id is None: the home page, after the user
\* typed in the text box, pressed Submit or pressed Use Demo Data
RunHome ==
    /\ nav.gage_id = "None"
    /\ \E text \in TextInputs, button \in {"none", "submit", "demo"} :
        nav' = homepage(IF nav.session_id THEN nav ELSE init_session_state(nav),
                        text, button = "submit", button = "demo")
    /\ UNCHANGED NavRest

\* a run of navigator() on the Gage Summary page: a widget of the sidebar
\* changed (the gage text input holds text), or the page was selected
RunSummary ==
    /\ nav.session_id
    /\ nav.gage_id # "None"
    /\ \E text \in TextInputs :
        /\ (nav.page # "summary") => text = nav.gage_id
        /\ nav' = summary(nav, text)
    /\ UNCHANGED NavRest

\* a run of navigator() on the Changepoint Analysis page
RunChangepoint ==
    /\ nav.session_id
    /\ nav.gage_id # "None"
    /\ \E text \in TextInputs :
        /\ (nav.page # "changepoint") => text = nav.gage_id
        /\ nav' = changepoint_page(nav, text)
    /\ UNCHANGED NavRest

NextNav == RunHome \/ RunSummary \/ RunChangepoint

SpecNav == InitNav /\ [][NextNav]_vars

(* ------------------------ claims on the navigation --------------------- *)
PageShown == nav # <<>> /\ nav.page \in {"summary", "changepoint"}

\* C27: whenever the Gage Summary or Changepoint page is shown (gage_id is not
\* None), session_state.site_data exists and is the site record loaded for the
\* current gage_id, also after an unknown gage id is submitted on the home page
\* and after the gage id is edited in a page sidebar.
C27_SiteDataIsCurrent ==
    PageShown =>
        /\ nav.gage_id # "None"
        /\ nav.site_data # "absent"
        /\ nav.site_data = nav.gage_id

\* the part of C27 that holds: a page other than the home page is shown only
\* with a gage_id that is not None
C27_PageOnlyWithGage ==
    PageShown => nav.gage_id # "None"

=============================================================================
